---- MODULE Spec2Model ----
(***************************************************************************)
(* Conversion of Sherpa docstrings (docutils trees) to ahelp/SXML          *)
(* documents: parsers/docutils.py, parsers/ahelp.py, helpers.py and the    *)
(* batch loop of doc2ahelp.py.                                             *)
(*                                                                         *)
(* Python strings are sequences of one-character strings, so that strip,   *)
(* split, lower, startswith, sorted ... are computed and not assumed.      *)
(* A Python value that may be None is a sequence of length 0 (None) or 1.  *)
(* A call that may raise returns a record whose field exc names the        *)
(* exception ("" when the call returns).                                   *)
(*                                                                         *)
(* doc2ahelp.process_symbol passes convert_docutils a keyword,             *)
(* annotated_sig, that the convert_docutils of parsers/docutils.py does    *)
(* not declare; the model binds the arguments convert_docutils declares.   *)
(* doc2ahelp.find_synonyms is not among the sources: the tables it gives   *)
(* are an input of the run.                                                *)
(***************************************************************************)
EXTENDS Integers, Sequences, FiniteSets, TLC

(***************************************************************************)
(* Bounds of the model.                                                    *)
(***************************************************************************)
\* longest document (top-level node list) given to convert_docutils
MaxDocLen == 3
\* longest node list given to one extractor called on its own
MaxListLen == 2
\* longest run of nodes after an Examples rubric
MaxRunLen == 4
\* most children of a node given to astext
MaxKids == 2
\* most fields of a field list given to find_fieldlist
MaxFields == 3
\* most inline nodes of a See Also paragraph given to find_seealso
MaxTokens == 3
\* longest run of nodes after a Notes rubric
MaxNotesLen == 3
\* most names of a See Also list given to create_seealso
MaxSeealso == 2
\* most rows of the body of a table and most cells of a row
MaxRows == 2
MaxCells == 2
\* the longest list given to splitWhile on its own
MaxSplitLen == 4

(***************************************************************************)
(* Python str                                                              *)
(***************************************************************************)
None == << >>

Some(x) == << x >>

IsNone(o) == Len(o) = 0

LowerChars == <<"a","b","c","d","e","f","g","h","i","j","k","l","m","n","o","p","q","r","s","t","u","v","w","x","y","z">>

UpperChars == <<"A","B","C","D","E","F","G","H","I","J","K","L","M","N","O","P","Q","R","S","T","U","V","W","X","Y","Z">>

DigitChars == <<"0","1","2","3","4","5","6","7","8","9">>

SeqToSet(s) == { s[i] : i \in 1..Len(s) }

IndexOf(s, c) == CHOOSE i \in 1..Len(s) : s[i] = c

\* the code points of the other characters the model uses; the backquote
\* character is written "bq"
PunctCode ==
    ("\n" :> 10) @@ (" " :> 32) @@ ("\"" :> 34) @@ ("'" :> 39) @@ ("(" :> 40)
    @@ (")" :> 41) @@ ("," :> 44) @@ ("-" :> 45) @@ ("." :> 46) @@ (":" :> 58)
    @@ ("=" :> 61) @@ (">" :> 62) @@ ("[" :> 91) @@ ("]" :> 93) @@ ("_" :> 95)
    @@ ("bq" :> 96)

\* ord(c)
Ord(c) ==
    IF c \in SeqToSet(LowerChars) THEN 96 + IndexOf(LowerChars, c)
    ELSE IF c \in SeqToSet(UpperChars) THEN 64 + IndexOf(UpperChars, c)
    ELSE IF c \in SeqToSet(DigitChars) THEN 47 + IndexOf(DigitChars, c)
    ELSE PunctCode[c]

\* str.islower() of one character
IsLowerChar(c) == c \in SeqToSet(LowerChars)

\* str.lower()
LowerChar(c) ==
    IF c \in SeqToSet(UpperChars) THEN LowerChars[IndexOf(UpperChars, c)] ELSE c

Lower(s) == [ i \in 1..Len(s) |-> LowerChar(s[i]) ]

IsSpace(c) == c \in {" ", "\n"}

StartsWith(s, p) == Len(p) <= Len(s) /\ SubSeq(s, 1, Len(p)) = p

EndsWith(s, p) == Len(p) <= Len(s) /\ SubSeq(s, Len(s) - Len(p) + 1, Len(s)) = p

\* str.strip()
RECURSIVE LStrip(_)
LStrip(s) == IF s # << >> /\ IsSpace(Head(s)) THEN LStrip(Tail(s)) ELSE s

RECURSIVE RStrip(_)
RStrip(s) ==
    IF s # << >> /\ IsSpace(s[Len(s)]) THEN RStrip(SubSeq(s, 1, Len(s) - 1)) ELSE s

Strip(s) == RStrip(LStrip(s))

\* s.find(p) != -1
Contains(s, p) ==
    \E i \in 1..(Len(s) - Len(p) + 1) : SubSeq(s, i, i + Len(p) - 1) = p

\* sep.join(parts)
RECURSIVE Join(_, _)
Join(sep, parts) ==
    IF parts = << >> THEN << >>
    ELSE IF Len(parts) = 1 THEN parts[1]
    ELSE parts[1] \o sep \o Join(sep, Tail(parts))

\* s.split(): the maximal runs of non-blank characters
RECURSIVE SplitWS(_, _)
SplitWS(s, cur) ==
    IF s = << >> THEN (IF cur = << >> THEN << >> ELSE << cur >>)
    ELSE IF IsSpace(Head(s))
         THEN (IF cur = << >> THEN << >> ELSE << cur >>) \o SplitWS(Tail(s), << >>)
         ELSE SplitWS(Tail(s), Append(cur, Head(s)))

Split(s) == SplitWS(s, << >>)

\* s.split(c): every piece between two occurrences of c, empty ones included
RECURSIVE SplitChar(_, _, _)
SplitChar(s, c, cur) ==
    IF s = << >> THEN << cur >>
    ELSE IF Head(s) = c THEN << cur >> \o SplitChar(Tail(s), c, << >>)
    ELSE SplitChar(Tail(s), c, Append(cur, Head(s)))

\* s.split(c, 1): cut at the first c only
SplitFirst(s, c) ==
    IF \E i \in 1..Len(s) : s[i] = c
    THEN LET i == CHOOSE k \in 1..Len(s) : s[k] = c /\ \A j \in 1..(k - 1) : s[j] # c
         IN  << SubSeq(s, 1, i - 1), SubSeq(s, i + 1, Len(s)) >>
    ELSE << s >>

\* a < b for Python strings (code point order)
RECURSIVE StrLess(_, _)
StrLess(a, b) ==
    IF b = << >> THEN FALSE
    ELSE IF a = << >> THEN TRUE
    ELSE IF Head(a) = Head(b) THEN StrLess(Tail(a), Tail(b))
    ELSE Ord(Head(a)) < Ord(Head(b))

\* sorted(list(set(xs))) for a set of strings
RECURSIVE SortedSet(_)
SortedSet(S) ==
    IF S = {} THEN << >>
    ELSE LET m == CHOOSE x \in S : \A y \in S \ {x} : StrLess(x, y)
         IN  << m >> \o SortedSet(S \ {m})

\* the elements of a list, first occurrences only, in order
RECURSIVE Dedup(_, _)
Dedup(xs, seen) ==
    IF xs = << >> THEN << >>
    ELSE IF Head(xs) \in seen THEN Dedup(Tail(xs), seen)
    ELSE << Head(xs) >> \o Dedup(Tail(xs), seen \cup {Head(xs)})

IsSuffix(t, s) == Len(t) <= Len(s) /\ SubSeq(s, Len(s) - Len(t) + 1, Len(s)) = t

(***************************************************************************)
(* docutils nodes and ElementTree elements                                 *)
(***************************************************************************)
\* a docutils node: its tag, its text (a "#text" leaf only), its children
\* and its xml:space attribute ("" when it has none)
Node(tag, txt, kids, space) ==
    [tagname |-> tag, text |-> txt, children |-> kids, xmlspace |-> space]

TextLeaf(s) == Node("#text", s, << >>, "")

Elem(tag, kids) == Node(tag, << >>, kids, "")

\* docutils.nodes.TextElement subclasses: their children's texts are joined
\* without a separator; every other element joins them with a blank line
TextElementTags ==
    {"paragraph", "rubric", "term", "literal", "emphasis", "strong", "reference",
     "title_reference", "footnote_reference", "label", "field_name",
     "literal_block", "doctest_block", "comment"}

\* docutils' own node.astext()
RECURSIVE NodeAstext(_)
NodeAstext(node) ==
    IF node.tagname = "#text" THEN node.text
    ELSE Join(IF node.tagname \in TextElementTags THEN << >> ELSE <<"\n","\n">>,
              [ i \in 1..Len(node.children) |-> NodeAstext(node.children[i]) ])

\* an ElementTree element: tag, attributes (a set of <<name, value>>), text
\* (None or one string) and children
El(tag, attrs, txt, kids) ==
    [tag |-> tag, attrs |-> attrs, text |-> txt, kids |-> kids]

NoAttrs == {}

Title(s) == { << "title", s >> }

\* el.set('title', s)
SetTitle(el, s) ==
    [el EXCEPT !.attrs = { a \in @ : a[1] # "title" } \cup Title(s)]

HasTitle(el, s) == << "title", s >> \in el.attrs

\* the outcome of a call: the value returned, or the exception raised
Ok(v) == [exc |-> "", val |-> v]

Raise(e) == [exc |-> e, val |-> << >>]

\* the exception a loop over calls stops with: that of the first failing call
FirstExc(rs) ==
    IF \E i \in 1..Len(rs) : rs[i].exc # ""
    THEN rs[CHOOSE i \in 1..Len(rs) :
                rs[i].exc # "" /\ \A j \in 1..(i - 1) : rs[j].exc = ""].exc
    ELSE ""

Vals(rs) == [ i \in 1..Len(rs) |-> rs[i].val ]

RECURSIVE Flatten(_)
Flatten(xss) == IF xss = << >> THEN << >> ELSE Head(xss) \o Flatten(Tail(xss))

(***************************************************************************)
(* parsers/docutils.py: splitWhile, is_para, astext                        *)
(***************************************************************************)
\* the length of the longest prefix of xs whose elements all satisfy pred;
\* pred is a function from the elements of xs to BOOLEAN
RECURSIVE PrefixLen(_, _)
PrefixLen(pred, xs) ==
    IF xs = << >> \/ ~pred[Head(xs)] THEN 0 ELSE 1 + PrefixLen(pred, Tail(xs))

splitWhile(pred, xs) ==
    LET n == PrefixLen(pred, xs)
    IN  << SubSeq(xs, 1, n), SubSeq(xs, n + 1, Len(xs)) >>

\* splitWhile step by step: the first loop appends to ls while pred holds
\* (idx counts from 0 as in the source), the second appends the rest to rs;
\* xs is only read
RECURSIVE splitWhile_first(_, _, _, _)
splitWhile_first(pred, xs, ls, idx) ==
    IF idx < Len(xs)
    THEN IF ~pred[xs[idx + 1]] THEN [ls |-> ls, idx |-> idx]
         ELSE splitWhile_first(pred, xs, Append(ls, xs[idx + 1]), idx + 1)
    ELSE [ls |-> ls, idx |-> idx]

RECURSIVE splitWhile_second(_, _, _)
splitWhile_second(xs, rs, idx) ==
    IF idx < Len(xs) THEN splitWhile_second(xs, Append(rs, xs[idx + 1]), idx + 1)
    ELSE rs

\* a faulty splitWhile: the elements that satisfy pred, then the others
splitWhile_partition(pred, xs) ==
    LET Holds(x) == pred[x]
        Fails(x) == ~pred[x]
    IN  [ls |-> SelectSeq(xs, Holds), rs |-> SelectSeq(xs, Fails), xs |-> xs]

\* the two lists returned and the list xs as the call leaves it
splitWhile_locals(pred, xs) ==
    LET first == splitWhile_first(pred, xs, << >>, 0)
    IN  [ls |-> first.ls, rs |-> splitWhile_second(xs, << >>, first.idx), xs |-> xs]

is_para(node) == node.tagname = "paragraph"

\* a faulty astext: docutils' own astext, whatever the node
astext_own(node) == Ok(NodeAstext(node))

\* a faulty astext: the label of a footnote is left out
astext_body_only(node) ==
    Ok(IF node.tagname = "footnote" /\ Len(node.children) >= 2
       THEN NodeAstext(node.children[2]) ELSE NodeAstext(node))

RECURSIVE astext(_)
astext(node) ==
    LET tag == node.tagname
    IN  IF tag = "system_message" THEN Ok(<< >>)
        ELSE IF tag \in {"#text", "reference"} THEN Ok(NodeAstext(node))
        ELSE IF tag = "footnote"
        THEN IF Len(node.children) < 2 THEN Raise("IndexError")
             ELSE IF node.children[1].tagname # "label" THEN Raise("AssertionError")
             ELSE IF node.children[2].tagname \notin {"paragraph", "enumerated_list"}
             THEN Raise("ValueError")
             ELSE LET cts == astext(node.children[2])
                  IN  IF cts.exc # "" THEN cts
                      ELSE Ok(<<"[">> \o NodeAstext(node.children[1]) \o <<"]">>
                              \o <<" ">> \o cts.val)
        ELSE IF tag = "footnote_reference" THEN Ok(<<"[">> \o NodeAstext(node) \o <<"]">>)
        ELSE IF tag = "title_reference" THEN Ok(<<"bq">> \o NodeAstext(node) \o <<"bq">>)
        ELSE IF tag \in {"literal", "emphasis", "strong"} THEN Ok(NodeAstext(node))
        ELSE IF tag \notin {"paragraph", "list_item", "enumerated_list"}
        THEN Raise("AssertionError")
        ELSE LET out == [ i \in 1..Len(node.children) |-> astext(node.children[i]) ]
             IN  IF FirstExc(out) # "" THEN Raise(FirstExc(out))
                 ELSE Ok(Join(<<" ">>, Vals(out)))

(***************************************************************************)
(* parsers/docutils.py: the block converters                               *)
(***************************************************************************)
make_syntax_block(lines) ==
    IF Len(lines) = 0 THEN Raise("AssertionError")
    ELSE Ok(El("SYNTAX", NoAttrs, None,
               [ i \in 1..Len(lines) |-> El("LINE", NoAttrs, Some(lines[i]), << >>) ]))

convert_para(para) ==
    LET text == [ i \in 1..Len(para.children) |-> astext(para.children[i]) ]
    IN  IF FirstExc(text) # "" THEN Raise(FirstExc(text))
        ELSE Ok(El("PARA", NoAttrs, Some(Join(<<"\n">>, Vals(text))), << >>))

convert_doctest_block(para) ==
    IF para.tagname # "doctest_block" \/ para.xmlspace # "preserve"
    THEN Raise("AssertionError")
    ELSE Ok(El("VERBATIM", NoAttrs, Some(NodeAstext(para)), << >>))

convert_literal_block(para) ==
    IF para.tagname # "literal_block" \/ para.xmlspace # "preserve"
    THEN Raise("AssertionError")
    ELSE Ok(El("VERBATIM", NoAttrs, Some(NodeAstext(para)), << >>))

convert_list_items(para) ==
    LET items == [ i \in 1..Len(para.children) |->
                     IF para.children[i].tagname # "list_item"
                     THEN Raise("AssertionError")
                     ELSE astext(para.children[i]) ]
    IN  IF FirstExc(items) # "" THEN Raise(FirstExc(items))
        ELSE Ok(El("LIST", NoAttrs, None,
                   [ i \in 1..Len(items) |->
                       El("ITEM", NoAttrs, Some(items[i].val), << >>) ]))

convert_block_quote(para) ==
    IF para.tagname # "block_quote" THEN Raise("AssertionError")
    ELSE IF Len(para.children) = 0 THEN Raise("IndexError")
    ELSE IF para.children[1].tagname \in {"bullet_list", "enumerated_list"}
    THEN IF Len(para.children) # 1 THEN Raise("AssertionError")
         ELSE convert_list_items(para.children[1])
    ELSE IF \A i \in 1..Len(para.children) :
                para.children[i].tagname = "doctest_block"
    THEN Ok(El("VERBATIM", NoAttrs,
               Some(Join(<<"\n","\n">>, [ i \in 1..Len(para.children) |->
                                       NodeAstext(para.children[i]) ])), << >>))
    ELSE IF para.children[1].tagname = "paragraph"
    THEN IF Len(para.children) # 1 THEN Raise("AssertionError")
         ELSE LET t == astext(para.children[1])
              IN  IF t.exc # "" THEN t
                  ELSE Ok(El("VERBATIM", NoAttrs, Some(t.val), << >>))
    ELSE Raise("ValueError")

convert_enumerated_list(para) ==
    IF para.tagname # "enumerated_list" THEN Raise("AssertionError")
    ELSE convert_list_items(para)

convert_bullet_list(para) ==
    IF para.tagname # "bullet_list" THEN Raise("AssertionError")
    ELSE convert_list_items(para)

\* one item of convert_definition_list's loop
convert_definition_list_item(el) ==
    IF el.tagname # "definition_list_item" THEN Raise("AssertionError")
    ELSE IF Len(el.children) < 2 THEN Raise("IndexError")
    ELSE IF el.children[1].tagname # "term" THEN Raise("AssertionError")
    ELSE IF Len(el.children[1].children) = 0 THEN Raise("IndexError")
    ELSE IF el.children[1].children[1].tagname \notin {"literal", "#text"}
    THEN Raise("AssertionError")
    ELSE IF el.children[2].tagname # "definition" THEN Raise("AssertionError")
    ELSE IF Len(el.children[2].children) = 0 THEN Raise("IndexError")
    ELSE IF el.children[2].children[1].tagname # "paragraph"
            \/ Len(el.children[2].children) # 1
    THEN Raise("AssertionError")
    ELSE LET xml == convert_para(el.children[2])
         IN  IF xml.exc # "" THEN xml
             ELSE Ok(SetTitle(xml.val, NodeAstext(el.children[1])))

\* returns a list of elements, one per item
convert_definition_list(para) ==
    IF para.tagname # "definition_list" THEN Raise("AssertionError")
    ELSE LET out == [ i \in 1..Len(para.children) |->
                        convert_definition_list_item(para.children[i]) ]
         IN  IF FirstExc(out) # "" THEN Raise(FirstExc(out)) ELSE Ok(Vals(out))

\* a faulty cell: an empty cell gives no DATA text
table_entry_no_text(entry) ==
    IF entry.tagname # "entry" THEN Raise("AssertionError")
    ELSE IF Len(entry.children) = 0
    THEN Ok(El("DATA", NoAttrs, None, << >>))
    ELSE IF Len(entry.children) # 1 \/ entry.children[1].tagname # "paragraph"
    THEN Raise("AssertionError")
    ELSE Ok(El("DATA", NoAttrs, Some(NodeAstext(entry)), << >>))

\* the DATA element of one entry of a row
table_entry(entry) ==
    IF entry.tagname # "entry" THEN Raise("AssertionError")
    ELSE IF Len(entry.children) = 0
    THEN Ok(El("DATA", NoAttrs, Some(<< >>), << >>))
    ELSE IF Len(entry.children) # 1 \/ entry.children[1].tagname # "paragraph"
    THEN Raise("AssertionError")
    ELSE Ok(El("DATA", NoAttrs, Some(NodeAstext(entry)), << >>))

\* the ROW element of one row of a thead or tbody
table_row(row) ==
    IF row.tagname # "row" THEN Raise("AssertionError")
    ELSE LET ds == [ i \in 1..Len(row.children) |-> table_entry(row.children[i]) ]
         IN  IF FirstExc(ds) # "" THEN Raise(FirstExc(ds))
             ELSE Ok(El("ROW", NoAttrs, None, Vals(ds)))

\* the ROW elements add_table_row appends to the table
add_table_row(el) ==
    IF el.tagname \notin {"thead", "tbody"} THEN Raise("AssertionError")
    ELSE LET rs == [ i \in 1..Len(el.children) |-> table_row(el.children[i]) ]
         IN  IF FirstExc(rs) # "" THEN Raise(FirstExc(rs)) ELSE Ok(Vals(rs))

\* the rows one child of the table group contributes
table_group_member(el) ==
    IF el.tagname = "colspec" THEN Ok(<< >>)
    ELSE IF el.tagname \in {"thead", "tbody"} THEN add_table_row(el)
    ELSE Raise("ValueError")

\* the cols attribute of the tgroup is taken to be a positive integer, as the
\* parser gives it
convert_table(tbl) ==
    IF tbl.tagname # "table" \/ Len(tbl.children) # 1 THEN Raise("AssertionError")
    ELSE IF tbl.children[1].tagname # "tgroup" THEN Raise("AssertionError")
    ELSE LET tgroup == tbl.children[1]
             rows   == [ i \in 1..Len(tgroup.children) |->
                           table_group_member(tgroup.children[i]) ]
         IN  IF FirstExc(rows) # "" THEN Raise(FirstExc(rows))
             ELSE Ok(El("TABLE", NoAttrs, None, Flatten(Vals(rows))))

convert_note(note) ==
    IF note.tagname # "note" THEN Raise("AssertionError")
    ELSE IF \E i \in 1..Len(note.children) : note.children[i].tagname # "paragraph"
    THEN Raise("AssertionError")
    ELSE IF Len(note.children) >= 3 THEN Raise("AssertionError")
    ELSE IF Len(note.children) = 1
    THEN LET out == convert_para(note.children[1])
         IN  IF out.exc # "" THEN out ELSE Ok(SetTitle(out.val, <<"N","o","t","e">>))
    ELSE IF Len(note.children) = 0 THEN Raise("IndexError")
    ELSE LET title == astext(note.children[1])
             out   == convert_para(note.children[2])
         IN  IF title.exc # "" THEN title
             ELSE IF out.exc # "" THEN out
             ELSE Ok(SetTitle(out.val, title.val))

convert_field_body(fbody) ==
    IF fbody.tagname # "field_body" THEN Raise("AssertionError")
    ELSE IF \E i \in 1..Len(fbody.children) : fbody.children[i].tagname # "paragraph"
    THEN Raise("AssertionError")
    ELSE IF Len(fbody.children) = 0 THEN Ok(El("PARA", NoAttrs, None, << >>))
    ELSE IF Len(fbody.children) = 1 THEN convert_para(fbody.children[1])
    ELSE Raise("ValueError")

\* the tags para_converters has a converter for
para_converters ==
    {"doctest_block", "block_quote", "enumerated_list", "definition_list",
     "bullet_list", "table", "note", "field_body", "literal_block"}

para_mconverters == {"definition_list"}

\* the converter make_para_blocks picks for the node
converter(para) ==
    CASE is_para(para)                        -> convert_para(para)
      [] para.tagname = "doctest_block"       -> convert_doctest_block(para)
      [] para.tagname = "block_quote"         -> convert_block_quote(para)
      [] para.tagname = "enumerated_list"     -> convert_enumerated_list(para)
      [] para.tagname = "definition_list"     -> convert_definition_list(para)
      [] para.tagname = "bullet_list"         -> convert_bullet_list(para)
      [] para.tagname = "table"               -> convert_table(para)
      [] para.tagname = "note"                -> convert_note(para)
      [] para.tagname = "field_body"          -> convert_field_body(para)
      [] para.tagname = "literal_block"       -> convert_literal_block(para)

\* returns a list of elements
make_para_blocks(para) ==
    IF para.tagname = "system_message" THEN Ok(<< >>)
    ELSE IF ~is_para(para) /\ para.tagname \notin para_converters
    THEN Raise("ValueError")
    ELSE LET out == converter(para)
         IN  IF out.exc # "" THEN out
             ELSE IF is_para(para) \/ para.tagname \notin para_mconverters
             THEN Ok(<< out.val >>)
             ELSE out

\* the blocks of a run of nodes, in order (for para in nodes: for b in
\* make_para_blocks(para): out.append(b))
blocks_of(pnodes) ==
    LET bs == [ i \in 1..Len(pnodes) |-> make_para_blocks(pnodes[i]) ]
    IN  IF FirstExc(bs) # "" THEN Raise(FirstExc(bs)) ELSE Ok(Flatten(Vals(bs)))

(***************************************************************************)
(* parsers/docutils.py: the section extractors.  Each returns              *)
(*   exc      the exception raised, "" when it returns                     *)
(*   section  None, or the one thing extracted                             *)
(*   rest     the remaining nodes                                          *)
(***************************************************************************)
Found(sec, rest) == [exc |-> "", section |-> Some(sec), rest |-> rest]

Absent(rest) == [exc |-> "", section |-> None, rest |-> rest]

Fails(e) == [exc |-> e, section |-> None, rest |-> << >>]

\* a faulty find_syntax: the syntax line of the document is left in the list
find_syntax_keeping(name, sig, indoc) ==
    IF Len(indoc) = 0 THEN Fails("IndexError")
    ELSE IF is_para(indoc[1])
            /\ StartsWith(Strip(NodeAstext(indoc[1])), name \o <<"(">>)
            /\ EndsWith(Strip(NodeAstext(indoc[1])), <<")">>)
    THEN Found(make_syntax_block(<< Strip(NodeAstext(indoc[1])) >>).val, indoc)
    ELSE [exc |-> "",
          section |-> IF IsNone(sig) THEN None
                      ELSE Some(make_syntax_block(<< sig[1] >>).val),
          rest |-> indoc]

\* sig is None or one string
find_syntax(name, sig, indoc) ==
    LET argline == IF IsNone(sig) THEN None
                   ELSE Some(make_syntax_block(<< sig[1] >>).val)
    IN  IF Len(indoc) = 0 THEN Fails("IndexError")
        ELSE IF ~is_para(indoc[1])
        THEN [exc |-> "", section |-> argline, rest |-> indoc]
        ELSE LET txt == Strip(NodeAstext(indoc[1]))
             IN  IF ~StartsWith(txt, name \o <<"(">>)
                 THEN [exc |-> "", section |-> argline, rest |-> indoc]
                 ELSE IF ~EndsWith(txt, <<")">>) THEN Fails("AssertionError")
                 ELSE Found(make_syntax_block(<< txt >>).val, Tail(indoc))

\* one pass of clean's loop, for the character c
clean_char(v, c) ==
    LET v1 == IF EndsWith(v, << c >>) THEN SubSeq(v, 1, Len(v) - 1) ELSE v
    IN  IF StartsWith(v1, << c >>) THEN Tail(v1) ELSE v1

RECURSIVE clean_loop(_, _)
clean_loop(v, cs) ==
    IF cs = << >> THEN v ELSE clean_loop(clean_char(v, Head(cs)), Tail(cs))

\* find_synopsis.clean
clean(v) == clean_loop(v, << ",", ".", ":", "\"", "'" >>)

\* the keywords of a synopsis text
synopsis_keywords(syn) ==
    LET keys == [ i \in 1..Len(Split(Lower(syn))) |-> clean(Split(Lower(syn))[i]) ]
    IN  SortedSet(SeqToSet(keys))

\* also returns the keywords (the second value of the Python tuple)
find_synopsis(indoc) ==
    IF Len(indoc) = 0 THEN Fails("IndexError") @@ [keywords |-> << >>]
    ELSE IF indoc[1].tagname # "paragraph"
    THEN Absent(indoc) @@ [keywords |-> << >>]
    ELSE LET syn == Strip(NodeAstext(indoc[1]))
         IN  Found(El("SYNOPSIS", NoAttrs, Some(syn), << >>), Tail(indoc))
             @@ [keywords |-> synopsis_keywords(syn)]

\* find_desc.want
want(x) == x.tagname \notin {"rubric", "field_list", "container", "seealso"}

\* a faulty find_desc: only the first node is taken
find_desc_one(indoc) ==
    IF Len(indoc) = 0 \/ ~want(indoc[1]) THEN Absent(indoc)
    ELSE IF make_para_blocks(indoc[1]).exc # ""
    THEN Fails(make_para_blocks(indoc[1]).exc)
    ELSE Found(El("DESC", NoAttrs, None, make_para_blocks(indoc[1]).val), Tail(indoc))

\* a faulty find_desc: the nodes taken are given back as the remainder
find_desc_taken(indoc) ==
    LET pnodes == splitWhile([x \in SeqToSet(indoc) |-> want(x)], indoc)[1]
        bs     == blocks_of(pnodes)
    IN  IF Len(pnodes) = 0 THEN Absent(indoc)
        ELSE IF bs.exc # "" THEN Fails(bs.exc)
        ELSE Found(El("DESC", NoAttrs, None, bs.val), pnodes)

find_desc(indoc) ==
    LET pnodes == splitWhile([x \in SeqToSet(indoc) |-> want(x)], indoc)[1]
        rnodes == splitWhile([x \in SeqToSet(indoc) |-> want(x)], indoc)[2]
        bs     == blocks_of(pnodes)
    IN  IF Len(pnodes) = 0 THEN Absent(indoc)
        ELSE IF bs.exc # "" THEN Fails(bs.exc)
        ELSE Found(El("DESC", NoAttrs, None, bs.val), rnodes)

(***************************************************************************)
(* find_fieldlist.  A parameter record is the dict {'name', 'param',       *)
(* 'type', 'ivar'}: a key that is not in the dict is None here.  The       *)
(* OrderedDict params is the sequence of its values (the key of a value    *)
(* is its name).                                                           *)
(***************************************************************************)
NewPar(pname) == [name |-> pname, param |-> None, type |-> None, ivar |-> None]

\* store[t0] = body
SetBody(par, t0, body) ==
    CASE t0 = "param" -> [par EXCEPT !.param = Some(body)]
      [] t0 = "type"  -> [par EXCEPT !.type = Some(body)]
      [] t0 = "ivar"  -> [par EXCEPT !.ivar = Some(body)]

KeyIndex(params, key) ==
    IF \E i \in 1..Len(params) : params[i].name = key
    THEN CHOOSE i \in 1..Len(params) : params[i].name = key
    ELSE 0

\* a faulty params[key] = val: the value is added even when the key is there
DictSet_adding(params, key, val) == Append(params, val)

\* params[key] = val
DictSet(params, key, val) ==
    IF KeyIndex(params, key) = 0 THEN Append(params, val)
    ELSE [params EXCEPT ![KeyIndex(params, key)] = val]

\* the field_name text and the field_body of a field
field_name_of(field) ==
    LET idx == { i \in 1..Len(field.children) :
                   field.children[i].tagname = "field_name" }
    IN  IF idx = {} THEN None
        ELSE Some(NodeAstext(field.children[CHOOSE i \in idx : \A j \in idx : j <= i]))

field_body_of(field) ==
    LET idx == { i \in 1..Len(field.children) :
                   field.children[i].tagname = "field_body" }
    IN  IF idx = {} THEN None
        ELSE Some(field.children[CHOOSE i \in idx : \A j \in idx : j <= i])

FieldTokens == {"param", "ivar", "type", "rtype", "raises", "returns"}

\* the tag of the first token of a field name, "" when it is not a known one
token_tag(t) ==
    CASE t = <<"p","a","r","a","m">>   -> "param"
      [] t = <<"i","v","a","r">>    -> "ivar"
      [] t = <<"t","y","p","e">>    -> "type"
      [] t = <<"r","t","y","p","e">>   -> "rtype"
      [] t = <<"r","a","i","s","e","s">>  -> "raises"
      [] t = <<"r","e","t","u","r","n","s">> -> "returns"
      [] OTHER          -> ""

\* one pass of the loop over the fields: st holds params, returns, raises and
\* the exception that ended the loop
fieldlist_step(st, field) ==
    IF st.exc # "" THEN st
    ELSE IF field.tagname # "field" THEN [st EXCEPT !.exc = "AssertionError"]
    ELSE IF \E i \in 1..Len(field.children) :
                field.children[i].tagname \notin {"field_name", "field_body"}
    THEN [st EXCEPT !.exc = "ValueError"]
    ELSE IF IsNone(field_name_of(field)) \/ IsNone(field_body_of(field))
    THEN [st EXCEPT !.exc = "AttributeError"]
    ELSE
    LET name  == field_name_of(field)[1]
        body  == field_body_of(field)[1]
        toks  == SplitFirst(name, " ")
        t0    == token_tag(toks[1])
        ntoks == Len(toks)
    IN  IF t0 = "" THEN [st EXCEPT !.exc = "AssertionError"]
        ELSE IF t0 = "raises"
        THEN [st EXCEPT !.raises =
                 Append(@, [tokens |-> Tail(toks), body |-> body])]
        ELSE IF t0 \in {"returns", "rtype"}
        THEN IF ntoks # 1 THEN [st EXCEPT !.exc = "AssertionError"]
             ELSE [st EXCEPT !.returns = Append(@, [kind |-> t0, body |-> body])]
        ELSE IF ntoks # 2 THEN [st EXCEPT !.exc = "AssertionError"]
        ELSE
        LET pname == toks[2]
            n     == Len(st.params)
        IN  IF t0 = "ivar" /\ n > 0 /\ EndsWith(Strip(st.params[n].name), <<",">>)
               /\ IsNone(st.params[n].ivar)
            THEN \* prev_val['ivar'] of a record without that key
                 [st EXCEPT !.exc = "KeyError"]
            ELSE IF t0 = "ivar" /\ n > 0 /\ EndsWith(Strip(st.params[n].name), <<",">>)
                    /\ Len(st.params[n].ivar[1].children) = 0
            THEN LET prev_val == st.params[n]
                     new_key  == prev_val.name \o <<" ">> \o pname
                     merged   == [prev_val EXCEPT !.name = new_key,
                                                  !.ivar = Some(body)]
                 IN  [st EXCEPT !.params =
                         DictSet(SubSeq(st.params, 1, n - 1), new_key, merged)]
            ELSE LET store == IF KeyIndex(st.params, pname) = 0 THEN NewPar(pname)
                              ELSE st.params[KeyIndex(st.params, pname)]
                 IN  [st EXCEPT !.params =
                         DictSet(st.params, pname, SetBody(store, t0, body))]

RECURSIVE fieldlist_loop(_, _)
fieldlist_loop(st, fields) ==
    IF fields = << >> THEN st
    ELSE fieldlist_loop(fieldlist_step(st, Head(fields)), Tail(fields))

find_fieldlist(indoc) ==
    IF Len(indoc) = 0 THEN Absent(indoc)
    ELSE IF indoc[1].tagname # "field_list" THEN Absent(indoc)
    ELSE LET st == fieldlist_loop([params |-> << >>, returns |-> << >>,
                                   raises |-> << >>, exc |-> ""],
                                  indoc[1].children)
         IN  IF st.exc # "" THEN Fails(st.exc)
             ELSE Found([params |-> st.params, returns |-> st.returns,
                         raises |-> st.raises], Tail(indoc))

\* the names of a definition-list See Also: one per item, its term's first child
seealso_term(n) ==
    IF n.tagname # "definition_list_item" THEN Raise("AssertionError")
    ELSE IF Len(n.children) = 0 THEN Raise("IndexError")
    ELSE IF n.children[1].tagname # "term" THEN Raise("AssertionError")
    ELSE IF Len(n.children[1].children) = 0 THEN Raise("IndexError")
    ELSE IF n.children[1].children[1].tagname \notin {"literal", "#text"}
    THEN Raise("AssertionError")
    ELSE Ok(NodeAstext(n.children[1].children[1]))

\* the names of a paragraph See Also: one per inline node
seealso_token(n) ==
    IF n.tagname \notin {"literal", "#text"} THEN Raise("AssertionError")
    ELSE Ok(NodeAstext(n))

\* the loop that cleans the names: out is the list built so far, exc is
\* "SystemExit" once sys.exit(1) was called
\* a faulty cleaning: the names are given as they were written
seealso_clean_keeping(names, out) == Ok(names)

RECURSIVE seealso_clean(_, _)
seealso_clean(names, out) ==
    IF names = << >> THEN Ok(out)
    ELSE LET n0 == Head(names)
             n  == IF StartsWith(n0, <<"s","h","e","r","p","a",".">>)
                   THEN SplitChar(n0, ".", << >>)[Len(SplitChar(n0, ".", << >>))]
                   ELSE n0
         IN  IF ~StartsWith(n0, <<"s","h","e","r","p","a",".">>) /\ Contains(n0, <<".">>)
             THEN Raise("SystemExit")
             ELSE seealso_clean(Tail(names),
                                IF n \in SeqToSet(out) THEN out ELSE Append(out, n))

find_seealso(indoc) ==
    IF Len(indoc) = 0 THEN Absent(indoc)
    ELSE IF indoc[1].tagname # "seealso" THEN Absent(indoc)
    ELSE
    LET node == indoc[1]
    IN  IF Len(node.children) = 0 THEN Fails("IndexError")
        ELSE IF node.children[1].tagname \notin {"definition_list", "paragraph"}
        THEN Fails("ValueError")
        ELSE IF Len(node.children) # 1 THEN Fails("AssertionError")
        ELSE
        LET kids  == node.children[1].children
            found == IF node.children[1].tagname = "definition_list"
                     THEN [ i \in 1..Len(kids) |-> seealso_term(kids[i]) ]
                     ELSE [ i \in 1..Len(kids) |-> seealso_token(kids[i]) ]
            names == SelectSeq(Vals(found), LAMBDA n : Strip(n) # <<",">>)
            out   == seealso_clean(names, << >>)
        IN  IF FirstExc(found) # "" THEN Fails(FirstExc(found))
            ELSE IF out.exc # "" THEN Fails(out.exc)
            ELSE Found(out.val, Tail(indoc))

\* find_notes.version
version(v) ==
    <<"T","h","i","s"," ","m","o","d","e","l"," ","i","s"," ","o","n","l","y"," ","a","v","a","i","l","a","b","l","e"," ","w","h","e","n"," ","u","s","e","d"," ","w","i","t","h"," ">> \o <<"X","S","P","E","C"," ">> \o v \o <<" ","o","r"," ","l","a","t","e","r",".">>

v1291 == version(<<"1","2",".","9",".","1">>)

v12100 == version(<<"1","2",".","1","0",".","0">>)

v12101 == version(<<"1","2",".","1","0",".","1">>)

\* a faulty find_notes.wanted: no node is dropped
wanted_all(n) == TRUE

\* find_notes.wanted
wanted(n) == NodeAstext(n) \notin {v1291, v12100}

not_rubric(x) == x.tagname # "rubric"

\* not_rubric over the elements of a list
not_rubric_of(xs) == [x \in SeqToSet(xs) |-> not_rubric(x)]

find_notes(name, indoc) ==
    IF Len(indoc) = 0 THEN Absent(indoc)
    ELSE IF indoc[1].tagname # "rubric" THEN Absent(indoc)
    ELSE IF Strip(NodeAstext(indoc[1])) # <<"N","o","t","e","s">> THEN Absent(indoc)
    ELSE
    LET rnodes == splitWhile(not_rubric_of(Tail(indoc)), Tail(indoc))[2]
        lnodes == SelectSeq(splitWhile(not_rubric_of(Tail(indoc)), Tail(indoc))[1], wanted)
        bs     == blocks_of(lnodes)
    IN  IF Len(lnodes) = 0 THEN Absent(rnodes)
        ELSE IF Len(lnodes) = 1 /\ NodeAstext(lnodes[1]) = v12101
        THEN Found(El("ADESC", Title(<<"N","e","w"," ","i","n"," ","C","I","A","O"," ","4",".","1","2">>), None,
                      << El("PARA", NoAttrs,
                            Some(<<"T","h","e"," ">> \o name \o <<" ","m","o","d","e","l"," ">>
                                 \o <<"(","a","d","d","e","d"," ","i","n"," ","X","S","P","E","C"," ","1","2",".","1","0",".","1",")"," ","i","s"," ","n","e","w"," ","i","n"," ","C","I","A","O"," ","4",".","1","2">>),
                            << >>) >>),
                   rnodes)
        ELSE IF bs.exc # "" THEN Fails(bs.exc)
        ELSE IF Len(bs.val) = 0 THEN Fails("AssertionError")
        ELSE Found(El("ADESC", Title(<<"N","o","t","e","s">>), None, bs.val), rnodes)

\* a faulty find_warning: it drops the first node and reports no section
find_warning_dropping(indoc) ==
    IF Len(indoc) = 0 THEN Absent(indoc) ELSE Absent(Tail(indoc))

find_warning(indoc) ==
    IF Len(indoc) = 0 THEN Absent(indoc)
    ELSE IF indoc[1].tagname # "warning" THEN Absent(indoc)
    ELSE IF Len(indoc[1].children) # 1 THEN Fails("AssertionError")
    ELSE LET cts == astext(indoc[1].children[1])
         IN  IF cts.exc # "" THEN Fails(cts.exc)
             ELSE Found(El("ADESC", Title(<<"W","a","r","n","i","n","g">>), None,
                           << El("PARA", NoAttrs, Some(cts.val), << >>) >>),
                        Tail(indoc))

\* the ITEM of one node of the References run
reference_item(footnote) ==
    IF footnote.tagname # "footnote" THEN Raise("AssertionError")
    ELSE LET t == astext(footnote)
         IN  IF t.exc # "" THEN t ELSE Ok(El("ITEM", NoAttrs, Some(t.val), << >>))

find_references(indoc) ==
    IF Len(indoc) = 0 THEN Absent(indoc)
    ELSE IF indoc[1].tagname # "rubric" THEN Absent(indoc)
    ELSE IF Strip(NodeAstext(indoc[1])) # <<"R","e","f","e","r","e","n","c","e","s">> THEN Absent(indoc)
    ELSE
    LET lnodes == splitWhile(not_rubric_of(Tail(indoc)), Tail(indoc))[1]
        rnodes == splitWhile(not_rubric_of(Tail(indoc)), Tail(indoc))[2]
        items  == [ i \in 1..Len(lnodes) |-> reference_item(lnodes[i]) ]
    IN  IF FirstExc(items) # "" THEN Fails(FirstExc(items))
        ELSE Found(El("ADESC", Title(<<"R","e","f","e","r","e","n","c","e","s">>), None,
                      << El("LIST", NoAttrs, None, Vals(items)) >>),
                   rnodes)

\* the test that makes a paragraph continue the last example
continues_example(out, para) ==
    para.tagname = "paragraph" /\ Len(out) > 1
    /\ IsLowerChar(NodeAstext(para)[1])

\* one pass of find_examples' loop.  st.out is the list of QEXAMPLE elements,
\* st.open tells whether desc is set (it is then the DESC of the last one)
examples_step(st, para) ==
    IF st.exc # "" THEN st
    ELSE IF para.tagname \notin {"paragraph", "doctest_block", "block_quote",
                                 "literal_block"}
    THEN [st EXCEPT !.exc = "AssertionError"]
    ELSE IF ~st.open /\ para.tagname = "paragraph" /\ Len(st.out) > 1
            /\ NodeAstext(para) = << >>
    THEN [st EXCEPT !.exc = "IndexError"]
    ELSE
    LET out1 == IF st.open \/ continues_example(st.out, para) THEN st.out
                ELSE Append(st.out,
                            El("QEXAMPLE", NoAttrs, None,
                               << El("DESC", NoAttrs, None, << >>) >>))
        bs   == make_para_blocks(para)
        n    == Len(out1)
        \* desc is the last child of the last QEXAMPLE
        d    == Len(out1[n].kids)
    IN  IF bs.exc # "" THEN [st EXCEPT !.exc = bs.exc]
        ELSE [st EXCEPT !.out  = [out1 EXCEPT ![n].kids[d].kids = @ \o bs.val],
                        !.open = (para.tagname = "paragraph")]

RECURSIVE examples_loop(_, _)
examples_loop(st, lnodes) ==
    IF lnodes = << >> THEN st
    ELSE examples_loop(examples_step(st, Head(lnodes)), Tail(lnodes))

find_examples(indoc) ==
    IF Len(indoc) = 0 THEN Absent(indoc)
    ELSE IF indoc[1].tagname # "rubric" THEN Absent(indoc)
    ELSE IF Strip(NodeAstext(indoc[1])) \notin {<<"E","x","a","m","p","l","e","s">>, <<"E","x","a","m","p","l","e">>}
    THEN Absent(indoc)
    ELSE
    LET lnodes == splitWhile(not_rubric_of(Tail(indoc)), Tail(indoc))[1]
        rnodes == splitWhile(not_rubric_of(Tail(indoc)), Tail(indoc))[2]
        st     == examples_loop([out |-> << >>, open |-> FALSE, exc |-> ""], lnodes)
    IN  IF st.exc # "" THEN Fails(st.exc)
        ELSE Found(El("QEXAMPLELIST", NoAttrs, None, st.out), rnodes)

(***************************************************************************)
(* parsers/docutils.py: what convert_docutils does with the sections       *)
(***************************************************************************)
\* the titled PARA blocks of one parameter record
param_blocks(par) ==
    IF ~IsNone(par.param) \/ ~IsNone(par.ivar)
    THEN LET ps == make_para_blocks(IF ~IsNone(par.param) THEN par.param[1]
                                    ELSE par.ivar[1])
         IN  IF ps.exc # "" THEN ps
             ELSE IF Len(ps.val) = 0 THEN Raise("AssertionError")
             ELSE Ok(<< SetTitle(ps.val[1], par.name) >> \o Tail(ps.val))
    ELSE \* SubElement(adesc, 'PARA', ...) appends p, and the loop over ps
         \* appends it again
         Ok(<< El("PARA", Title(par.name), None, << >>),
               El("PARA", Title(par.name), None, << >>) >>)

\* fieldinfo is None or one record; the value is None or one ADESC
extract_params(fieldinfo) ==
    IF IsNone(fieldinfo) THEN Ok(None)
    ELSE
    LET parinfo  == fieldinfo[1].params
        retinfo  == fieldinfo[1].returns
        is_attrs == \E i \in 1..Len(parinfo) : ~IsNone(parinfo[i].ivar)
        nparams  == Len(parinfo)
        nret     == Len(retinfo)
        name     == IF is_attrs THEN <<"o","b","j","e","c","t">> ELSE <<"f","u","n","c","t","i","o","n">>
        value    == IF is_attrs THEN <<"a","t","t","r","i","b","u","t","e">> ELSE <<"p","a","r","a","m","e","t","e","r">>
        title    == IF is_attrs THEN <<"A","T","T","R","I","B","U","T","E","S">> ELSE <<"P","A","R","A","M","E","T","E","R","S">>
        intro    == IF nparams = 0
                    THEN <<"T","h","i","s"," ">> \o name \o <<" ","h","a","s"," ","n","o"," ">> \o value \o <<"s">>
                    ELSE IF nparams = 1
                    THEN <<"T","h","e"," ">> \o value \o <<" ","f","o","r"," ","t","h","i","s"," ">> \o name \o <<" ","i","s",":">>
                    ELSE <<"T","h","e"," ">> \o value \o <<"s"," ","f","o","r"," ","t","h","i","s"," ">> \o name \o <<" ","a","r","e",":">>
        pars     == [ i \in 1..nparams |-> param_blocks(parinfo[i]) ]
        rvals    == SelectSeq(retinfo, LAMBDA r : r.kind = "returns")
        head     == << El("PARA", NoAttrs, Some(intro), << >>) >>
    IN  IF nparams = 0 /\ nret = 0
        THEN IF Len(fieldinfo[1].raises) = 0 THEN Raise("AssertionError")
             ELSE Ok(None)
        ELSE IF FirstExc(pars) # "" THEN Raise(FirstExc(pars))
        ELSE IF nret = 0
        THEN Ok(Some(El("ADESC", Title(title), None, head \o Flatten(Vals(pars)))))
        ELSE IF Len(rvals) # 1 THEN Raise("AssertionError")
        ELSE LET rv == convert_para(rvals[1].body)
             IN  IF rv.exc # "" THEN rv
                 ELSE Ok(Some(El("ADESC", Title(title), None,
                        head \o Flatten(Vals(pars))
                        \o << El("PARA", Title(<<"R","e","t","u","r","n"," ","v","a","l","u","e">>),
                                 Some(<<"T","h","e"," ","r","e","t","u","r","n"," ","v","a","l","u","e"," ","f","r","o","m"," ","t","h","i","s"," ","f","u","n","c","t","i","o","n"," ","i","s",":">>),
                                 << >>),
                              rv.val >>)))

Line(s) == El("LINE", NoAttrs, Some(s), << >>)

\* str(x) of an element's text
TextStr(t) == IF IsNone(t) THEN <<"N","o","n","e">> ELSE t[1]

\* the line add_pars_to_syntax adds for a parameter with a type
partype_line(par) ==
    LET ps == make_para_blocks(par.type[1])
    IN  IF ps.exc # "" THEN ps
        ELSE IF Len(ps.val) # 1 THEN Raise("AssertionError")
        ELSE Ok(Line(par.name \o <<" ","-"," ">> \o TextStr(ps.val[1].text)))

\* syntax and fieldlist are None or one value; the value is the syntax
add_pars_to_syntax(syntax, fieldlist) ==
    IF IsNone(syntax) \/ IsNone(fieldlist) THEN Ok(syntax)
    ELSE LET partypes == SelectSeq(fieldlist[1].params, LAMBDA p : ~IsNone(p.type))
             ls       == [ i \in 1..Len(partypes) |-> partype_line(partypes[i]) ]
         IN  IF Len(partypes) = 0 THEN Ok(syntax)
             ELSE IF FirstExc(ls) # "" THEN Raise(FirstExc(ls))
             ELSE Ok(Some([syntax[1] EXCEPT
                             !.kids = @ \o << Line(<< >>) >> \o Vals(ls)]))

add_synonyms_to_syntax(syntax, synonyms) ==
    IF IsNone(syntax) \/ IsNone(synonyms) THEN Ok(syntax)
    ELSE IF Len(synonyms[1]) # 1 THEN Raise("AssertionError")
    ELSE Ok(Some([syntax[1] EXCEPT
                    !.kids = @ \o << Line(<< >>),
                                     Line(<<"A","l","i","a","s",":"," ">> \o synonyms[1][1]) >>]))

\* a symbol of sherpa.astro.ui: kind is "function", "model" (a ModelWrapper),
\* "xsadd" or "xsmul" (a ModelWrapper of an XSPEC additive or multiplicative
\* model), or "none" (no symbol given); mtype is the model class name in
\* lower case and strval the text str(symbol.modeltype('mdl')) gives
IsModelWrapper(symbol) == symbol.kind \in {"model", "xsadd", "xsmul"}

augment_examples(examples, symbol) ==
    IF symbol.kind = "none" \/ ~IsModelWrapper(symbol) THEN examples
    ELSE
    LET example ==
          El("QEXAMPLE", NoAttrs, None,
             << El("SYNTAX", NoAttrs, None,
                   << Line(<<">",">",">"," ","c","r","e","a","t","e","_","m","o","d","e","l","_","c","o","m","p","o","n","e","n","t","(","\"">> \o symbol.mtype
                           \o <<"\"",","," ","\"","m","d","l","\"",")">>),
                      Line(<<">",">",">"," ","p","r","i","n","t","(","m","d","l",")">>) >>),
                El("DESC", NoAttrs, None,
                   << El("PARA", NoAttrs,
                         Some(<<"C","r","e","a","t","e"," ","a"," ","c","o","m","p","o","n","e","n","t"," ","o","f"," ","t","h","e"," ">> \o symbol.mtype
                              \o <<" ","m","o","d","e","l">>
                              \o <<" ","a","n","d"," ","d","i","s","p","l","a","y"," ","i","t","s"," ","d","e","f","a","u","l","t"," ","p","a","r","a","m","e","t","e","r","s","."," ","T","h","e"," ","o","u","t","p","u","t"," ","i","s",":">>),
                         << >>),
                      El("VERBATIM", NoAttrs, Some(symbol.strval), << >>) >>) >>)
        base == IF IsNone(examples) THEN El("QEXAMPLELIST", NoAttrs, None, << >>)
                ELSE examples[1]
    IN  Some([base EXCEPT !.kids = << example >> \o @])

\* a faulty create_seealso.convert: the symbol name always comes first
seealso_pair_unsorted(t1, t2) == t1 \o t2

\* create_seealso.convert
seealso_pair(t1, t2) == IF StrLess(t1, t2) THEN t1 \o t2 ELSE t2 \o t1

\* seealso is None or one list of names; the value is the pair of attributes
create_seealso(name, seealso) ==
    IF IsNone(seealso) THEN << << >>, << >> >>
    ELSE << Join(<<" ">>, [ i \in 1..Len(seealso[1]) |->
                           seealso_pair(Lower(name), Lower(seealso[1][i])) ]),
            << >> >>

find_context(name, symbol) ==
    IF IsModelWrapper(symbol) THEN <<"m","o","d","e","l","s">>
    ELSE IF name \in {<<"g","e","t","_","c","o","n","f","_","r","e","s","u","l","t","s">>, <<"g","e","t","_","c","o","n","f","_","o","p","t">>, <<"g","e","t","_","c","o","v","a","r","_","r","e","s","u","l","t","s">>,
                      <<"g","e","t","_","c","o","v","a","r","_","o","p","t">>, <<"g","e","t","_","p","r","o","j","_","r","e","s","u","l","t","s">>, <<"g","e","t","_","p","r","o","j","_","o","p","t">>}
    THEN <<"c","o","n","f","i","d","e","n","c","e">>
    ELSE IF StartsWith(name, <<"g","e","t","_","m","e","t","h","o","d">>) THEN <<"m","e","t","h","o","d","s">>
    ELSE IF name \in {<<"f","i","t","_","b","k","g">>, <<"g","e","t","_","f","i","t","_","r","e","s","u","l","t","s">>} THEN <<"f","i","t","t","i","n","g">>
    ELSE IF name \in {<<"i","g","n","o","r","e","2","d","_","i","m","a","g","e">>, <<"n","o","t","i","c","e","2","d","_","i","m","a","g","e">>} THEN <<"f","i","l","t","e","r","i","n","g">>
    ELSE IF name \in {<<"g","e","t","_","b","k","g","_","m","o","d","e","l">>, <<"g","e","t","_","b","k","g","_","s","o","u","r","c","e">>, <<"g","e","t","_","m","o","d","e","l","_","p","a","r","s">>,
                      <<"g","e","t","_","m","o","d","e","l","_","t","y","p","e">>, <<"g","e","t","_","n","u","m","_","p","a","r","_","f","r","o","z","e","n">>,
                      <<"g","e","t","_","n","u","m","_","p","a","r","_","t","h","a","w","e","d">>, <<"g","e","t","_","x","s","a","b","u","n","d">>, <<"g","e","t","_","x","s","c","o","s","m","o">>,
                      <<"g","e","t","_","x","s","x","s","e","c","t">>, <<"g","e","t","_","x","s","x","s","e","t">>, <<"l","o","a","d","_","t","e","m","p","l","a","t","e","_","i","n","t","e","r","p","o","l","a","t","o","r">>,
                      <<"l","o","a","d","_","x","s","t","a","b","l","e","_","m","o","d","e","l">>, <<"g","e","t","_","x","s","c","h","a","t","t","e","r">>, <<"s","e","t","_","x","s","c","h","a","t","t","e","r">>,
                      <<"s","e","t","_","b","k","g","_","f","u","l","l","_","m","o","d","e","l">>}
    THEN <<"m","o","d","e","l","i","n","g">>
    ELSE IF name \in {<<"g","e","t","_","s","a","m","p","l","e","r","_","n","a","m","e">>, <<"g","e","t","_","s","a","m","p","l","e","r","_","o","p","t">>, <<"g","e","t","_","s","t","a","t","_","n","a","m","e">>}
    THEN <<"s","t","a","t","i","s","t","i","c","s">>
    ELSE IF StartsWith(name, <<"p","l","o","t","_">>) \/ Contains(name, <<"_","p","l","o","t">>) THEN <<"p","l","o","t","t","i","n","g">>
    ELSE IF StartsWith(name, <<"g","r","o","u","p">>)
            \/ name \in {<<"c","r","e","a","t","e","_","a","r","f">>, <<"c","r","e","a","t","e","_","r","m","f">>, <<"g","e","t","_","b","k","g","_","a","r","f">>, <<"g","e","t","_","b","k","g","_","r","m","f">>}
    THEN <<"d","a","t","a">>
    ELSE IF name \in {<<"m","u","l","t","i","n","o","r","m","a","l","_","p","d","f">>, <<"m","u","l","t","i","t","_","p","d","f">>} THEN <<"u","t","i","l","i","t","i","e","s">>
    ELSE IF name \in {<<"g","e","t","_","d","a","t","a","_","c","o","n","t","o","u","r">>, <<"g","e","t","_","d","a","t","a","_","c","o","n","t","o","u","r","_","p","r","e","f","s">>,
                      <<"g","e","t","_","d","a","t","a","_","i","m","a","g","e">>, <<"g","e","t","_","f","i","t","_","c","o","n","t","o","u","r">>, <<"g","e","t","_","k","e","r","n","e","l","_","c","o","n","t","o","u","r">>,
                      <<"g","e","t","_","k","e","r","n","e","l","_","i","m","a","g","e">>, <<"g","e","t","_","m","o","d","e","l","_","c","o","n","t","o","u","r">>,
                      <<"g","e","t","_","m","o","d","e","l","_","c","o","n","t","o","u","r","_","p","r","e","f","s">>, <<"g","e","t","_","m","o","d","e","l","_","i","m","a","g","e">>,
                      <<"g","e","t","_","p","s","f","_","c","o","n","t","o","u","r">>, <<"g","e","t","_","p","s","f","_","i","m","a","g","e">>, <<"g","e","t","_","r","a","t","i","o","_","c","o","n","t","o","u","r">>,
                      <<"g","e","t","_","r","a","t","i","o","_","i","m","a","g","e">>, <<"g","e","t","_","r","e","s","i","d","_","c","o","n","t","o","u","r">>, <<"g","e","t","_","r","e","s","i","d","_","i","m","a","g","e">>,
                      <<"g","e","t","_","s","o","u","r","c","e","_","c","o","n","t","o","u","r">>, <<"g","e","t","_","s","o","u","r","c","e","_","i","m","a","g","e">>}
    THEN <<"v","i","s","u","a","l","i","z","a","t","i","o","n">>
    ELSE IF name = <<"g","e","t","_","f","u","n","c","t","i","o","n","s">> THEN <<"i","n","f","o">>
    ELSE <<"s","h","e","r","p","a","i","s","h">>

(***************************************************************************)
(* parsers/docutils.py: convert_docutils                                   *)
(***************************************************************************)
\* a faulty order of the statements: the examples are looked for before the
\* references
examples_first_order ==
    << "find_syntax", "find_synopsis", "find_desc", "xspec_line",
       "find_fieldlist", "find_warning", "find_seealso", "find_fieldlist_2",
       "extract_params", "add_synonyms_to_syntax", "add_pars_to_syntax",
       "find_seealso_again", "find_notes", "find_notes_2", "find_examples",
       "find_references", "augment_examples", "find_references_again" >>

\* the statements of convert_docutils that read or change the working node
\* list or a section, in the order convert_docutils executes them
extractor_order ==
    << "find_syntax", "find_synopsis", "find_desc", "xspec_line",
       "find_fieldlist", "find_warning", "find_seealso", "find_fieldlist_2",
       "extract_params", "add_synonyms_to_syntax", "add_pars_to_syntax",
       "find_seealso_again", "find_notes", "find_notes_2", "find_references",
       "find_examples", "augment_examples", "find_references_again" >>

\* the local variables of convert_docutils before the first statement;
\* calls is the record of the extractor calls made so far
cd_start(doc) ==
    [exc |-> "", nodes |-> doc, calls |-> << >>,
     syntax |-> None, synopsis |-> None, refkeywords |-> << >>, desc |-> None,
     fieldlist1 |-> None, warnings |-> None, seealso |-> None,
     fieldlist2 |-> None, params |-> None, notes |-> None, notes2 |-> None,
     refs |-> None, examples |-> None]

\* nodes and calls after the statement step called the extractor fn, which
\* returned r (or raised)
Called(st, step, fn, r) ==
    [st EXCEPT !.exc   = r.exc,
               !.nodes = IF r.exc = "" THEN r.rest ELSE @,
               !.calls = Append(@, [step   |-> step,
                                    fn     |-> fn,
                                    before |-> st.nodes,
                                    after  |-> IF r.exc = "" THEN r.rest
                                               ELSE st.nodes,
                                    found  |-> r.exc = "" /\ ~IsNone(r.section),
                                    exc    |-> r.exc])]

\* the two LINEs added to the SYNTAX block of an XSPEC model
xspec_line(st, name, symbol) ==
    IF symbol.kind \notin {"xsadd", "xsmul"} THEN st
    ELSE IF IsNone(st.syntax) THEN [st EXCEPT !.exc = "AssertionError"]
    ELSE [st EXCEPT !.syntax = Some([@[1] EXCEPT !.kids =
            @ \o << Line(<< >>),
                    Line(<<"T","h","e"," ">> \o name \o <<" ","m","o","d","e","l"," ","i","s"," ">>
                         \o (IF symbol.kind = "xsadd" THEN <<"a","n"," ","a","d","d","i","t","i","v","e">>
                             ELSE <<"a"," ","m","u","l","t","i","p","l","i","c","a","t","i","v","e">>)
                         \o <<" ","m","o","d","e","l"," ","c","o","m","p","o","n","e","n","t",".">>) >>])]

\* one statement of convert_docutils
cd_step(st, step, name, sig, symbol, synonyms) ==
    IF st.exc # "" THEN st
    ELSE CASE step = "find_syntax" ->
              LET r == find_syntax(name, sig, st.nodes)
              IN  [Called(st, step, "find_syntax", r) EXCEPT !.syntax = r.section]
           [] step = "find_synopsis" ->
              LET r == find_synopsis(st.nodes)
              IN  [Called(st, step, "find_synopsis", r) EXCEPT
                     !.synopsis = r.section, !.refkeywords = r.keywords]
           [] step = "find_desc" ->
              LET r == find_desc(st.nodes)
              IN  [Called(st, step, "find_desc", r) EXCEPT !.desc = r.section]
           [] step = "xspec_line" -> xspec_line(st, name, symbol)
           [] step = "find_fieldlist" ->
              LET r == find_fieldlist(st.nodes)
              IN  [Called(st, step, "find_fieldlist", r) EXCEPT !.fieldlist1 = r.section]
           [] step = "find_warning" ->
              LET r == find_warning(st.nodes)
              IN  [Called(st, step, "find_warning", r) EXCEPT !.warnings = r.section]
           [] step = "find_seealso" ->
              LET r == find_seealso(st.nodes)
              IN  [Called(st, step, "find_seealso", r) EXCEPT !.seealso = r.section]
           [] step = "find_fieldlist_2" ->
              LET r == find_fieldlist(st.nodes)
              IN  [Called(st, step, "find_fieldlist", r) EXCEPT !.fieldlist2 = r.section]
           [] step = "extract_params" ->
              LET r == extract_params(st.fieldlist1)
              IN  IF r.exc # "" THEN [st EXCEPT !.exc = r.exc]
                  ELSE [st EXCEPT !.params = r.val]
           [] step = "add_synonyms_to_syntax" ->
              LET r == add_synonyms_to_syntax(st.syntax, synonyms)
              IN  IF r.exc # "" THEN [st EXCEPT !.exc = r.exc]
                  ELSE [st EXCEPT !.syntax = r.val]
           [] step = "add_pars_to_syntax" ->
              LET r == add_pars_to_syntax(st.syntax, st.fieldlist1)
              IN  IF r.exc # "" THEN [st EXCEPT !.exc = r.exc]
                  ELSE [st EXCEPT !.syntax = r.val]
           [] step = "find_seealso_again" ->
              IF ~IsNone(st.seealso) THEN st
              ELSE LET r == find_seealso(st.nodes)
                   IN  [Called(st, step, "find_seealso", r) EXCEPT !.seealso = r.section]
           [] step = "find_notes" ->
              LET r == find_notes(name, st.nodes)
              IN  [Called(st, step, "find_notes", r) EXCEPT !.notes = r.section]
           [] step = "find_notes_2" ->
              LET r == find_notes(name, st.nodes)
              IN  [Called(st, step, "find_notes", r) EXCEPT !.notes2 = r.section]
           [] step = "find_references" ->
              LET r == find_references(st.nodes)
              IN  [Called(st, step, "find_references", r) EXCEPT !.refs = r.section]
           [] step = "find_examples" ->
              LET r == find_examples(st.nodes)
              IN  [Called(st, step, "find_examples", r) EXCEPT !.examples = r.section]
           [] step = "augment_examples" ->
              [st EXCEPT !.examples = augment_examples(@, symbol)]
           [] step = "find_references_again" ->
              IF ~IsNone(st.refs) THEN st
              ELSE LET r == find_references(st.nodes)
                   IN  [Called(st, step, "find_references", r) EXCEPT !.refs = r.section]

RECURSIVE cd_run(_, _, _, _, _, _)
cd_run(st, steps, name, sig, symbol, synonyms) ==
    IF steps = << >> THEN st
    ELSE cd_run(cd_step(st, Head(steps), name, sig, symbol, synonyms),
                Tail(steps), name, sig, symbol, synonyms)

\* a faulty choice of the root element: the two schemas are exchanged
rootname_exchanged(dtd) ==
    IF dtd = "ahelp" THEN "cxcdocumentationpage"
    ELSE IF dtd = "sxml" THEN "cxchelptopics"
    ELSE "RuntimeError"

\* the root element of the schema
rootname_of(dtd) ==
    IF dtd = "ahelp" THEN "cxchelptopics"
    ELSE IF dtd = "sxml" THEN "cxcdocumentationpage"
    ELSE "RuntimeError"

\* the attributes of ENTRY before the metadata is merged; context is None
\* or one string
entry_attrs(name, refkeywords, seealsotags, displayseealsotags) ==
    [pkg |-> <<"s","h","e","r","p","a">>, key |-> name,
     refkeywords |-> Join(<<" ">>, refkeywords),
     seealsogroups |-> seealsotags,
     displayseealsogroups |-> displayseealsotags,
     context |-> None]

\* a faulty merge: the keywords of the record are appended as they are
merge_metadata_appending(xmlattrs, metadata) ==
    IF IsNone(metadata) THEN xmlattrs
    ELSE [xmlattrs EXCEPT
            !.key = metadata[1].key,
            !.refkeywords = @ \o <<" ">> \o metadata[1].refkeywords,
            !.context = Some(metadata[1].context)]

\* the loop over metadata.items(); metadata is None or one record
merge_metadata(xmlattrs, metadata) ==
    IF IsNone(metadata) THEN xmlattrs
    ELSE [xmlattrs EXCEPT
            !.key = metadata[1].key,
            !.refkeywords =
                Join(<<" ">>, SortedSet(SeqToSet(
                    Split(@ \o <<" ">> \o metadata[1].refkeywords)))),
            !.context = Some(metadata[1].context)]

\* the fall back to find_context
fill_context(xmlattrs, name, symbol) ==
    IF IsNone(xmlattrs.context)
    THEN [xmlattrs EXCEPT !.context = Some(find_context(name, symbol))]
    ELSE xmlattrs

\* the synonyms are put in front of the refkeywords
add_synonym_keywords(xmlattrs, synonyms) ==
    IF IsNone(synonyms) THEN xmlattrs
    ELSE [xmlattrs EXCEPT
            !.refkeywords = Join(<<" ">>, synonyms[1]) \o <<" ">> \o @]

\* a faulty order of the sections: the examples come after the parameters
entry_sections_examples_late(st) ==
    st.synopsis \o st.syntax \o st.desc \o st.params \o st.examples
    \o st.warnings \o st.notes \o st.notes2 \o st.refs

\* the sections appended to ENTRY, None skipped
entry_sections(st) ==
    st.synopsis \o st.syntax \o st.desc \o st.examples \o st.params
    \o st.warnings \o st.notes \o st.notes2 \o st.refs

\* the "standard" postamble
xspec_version ==
    El("ADESC", Title(<<"X","S","P","E","C"," ","v","e","r","s","i","o","n">>), None,
       << El("PARA", NoAttrs,
             Some(<<"C","I","A","O"," ","4",".","1","2"," ","c","o","m","e","s"," ","w","i","t","h"," ","s","u","p","p","o","r","t"," ","f","o","r"," ","v","e","r","s","i","o","n"," ">>
                  \o <<"1","2",".","1","0",".","1","n"," ","o","f"," ","t","h","e"," ","X","S","P","E","C"," ","m","o","d","e","l","s","."," ","T","h","i","s"," ","c","a","n"," ","b","e"," ">>
                  \o <<"c","h","e","c","k","e","d"," ","w","i","t","h"," ","t","h","e"," ","f","o","l","l","o","w","i","n","g",":">>), << >>),
          El("PARA", NoAttrs, None,
             << El("SYNTAX", NoAttrs, None,
                   << Line(<<"%"," ","p","y","t","h","o","n"," ","-","c"," ","'","f","r","o","m"," ","s","h","e","r","p","a",".","a","s","t","r","o"," ","i","m","p","o","r","t"," ","x","s","p","e","c",";"," ">>
                           \o <<"p","r","i","n","t","(","x","s","p","e","c",".","g","e","t","_","x","s","v","e","r","s","i","o","n","(",")",")","'">>),
                      Line(<<"1","2",".","1","0",".","1","n">>) >>) >>) >>)

\* the tail of the HREF element is kept as the attribute "#tail"
bugs ==
    El("BUGS", NoAttrs, None,
       << El("PARA", NoAttrs, Some(<<"S","e","e"," ","t","h","e"," ">>),
             << El("HREF",
                   { << "link", <<"h","t","t","p","s",":","/","/","c","x","c",".","h","a","r","v","a","r","d",".","e","d","u","/","s","h","e","r","p","a","/","b","u","g","s","/">> >>,
                     << "#tail", <<" ","f","o","r"," ","a","n"," ","u","p","-","t","o","-","d","a","t","e"," ","l","i","s","t","i","n","g"," ","o","f"," ","k","n","o","w","n"," ","b","u","g","s",".">> >> },
                   Some(<<"b","u","g","s"," ","p","a","g","e","s"," ","o","n"," ","t","h","e"," ","S","h","e","r","p","a"," ","w","e","b","s","i","t","e">>), << >>) >>) >>)

lastmodified == El("LASTMODIFIED", NoAttrs, Some(<<"D","e","c","e","m","b","e","r"," ","2","0","2","0">>), << >>)

postamble(name) ==
    (IF Contains(name, <<"x","s">>) THEN << xspec_version >> ELSE << >>)
    \o << bugs, lastmodified >>

\* what convert_docutils gives: kind is
\*   "raise"   an exception (exc) left the function
\*   "nodes"   the trailing nodes were returned (a list, not a document)
\*   "outdoc"  the document: root is the root tag, attrs and kids are the
\*             attributes and the children of its one ENTRY
cd_result(kind, exc, root, attrs, kids, nodes, calls) ==
    [kind |-> kind, exc |-> exc, root |-> root, attrs |-> attrs, kids |-> kids,
     nodes |-> nodes, calls |-> calls]

NoEntryAttrs == entry_attrs(<< >>, << >>, << >>, << >>)

\* sig, metadata and synonyms are None or one value
convert_docutils(name, doc, sig, symbol, metadata, synonyms, dtd) ==
    IF dtd \notin {"ahelp", "sxml"}
    THEN cd_result("raise", "ValueError", "", NoEntryAttrs, << >>, << >>, << >>)
    ELSE IF ~IsNone(synonyms) /\ Len(synonyms[1]) = 0
    THEN cd_result("raise", "AssertionError", "", NoEntryAttrs, << >>, << >>, << >>)
    ELSE
    LET st   == cd_run(cd_start(doc), extractor_order, name, sig, symbol, synonyms)
        tags == create_seealso(name, st.seealso)
        xmlattrs ==
            add_synonym_keywords(
                fill_context(
                    merge_metadata(
                        entry_attrs(name, st.refkeywords, tags[1], tags[2]),
                        metadata),
                    name, symbol),
                synonyms)
    IN  IF st.exc # ""
        THEN cd_result("raise", st.exc, "", NoEntryAttrs, << >>, << >>, st.calls)
        ELSE IF st.nodes # << >>
        THEN cd_result("nodes", "", "", NoEntryAttrs, << >>, st.nodes, st.calls)
        ELSE cd_result("outdoc", "", rootname_of(dtd), xmlattrs,
                       entry_sections(st) \o postamble(name), << >>, st.calls)

(***************************************************************************)
(* Inputs: the nodes the parser gives, the symbols, the metadata           *)
(***************************************************************************)
Para(s) == Elem("paragraph", << TextLeaf(s) >>)

Rubric(s) == Elem("rubric", << TextLeaf(s) >>)

Field(name, body) ==
    Elem("field", << Elem("field_name", << TextLeaf(name) >>),
                     Elem("field_body", body) >>)

\* a paragraph that is the syntax line of the symbol fit
N_syntax == Para(<<"f","i","t","(","i","d","=","N","o","n","e",")">>)

\* a paragraph that starts like a syntax line of fit and does not end in ")"
N_badsyntax == Para(<<"f","i","t","(","i","d",")"," ","f","i","t","s">>)

N_text == Para(<<"F","i","t"," ","t","h","e"," ","d","a","t","a",","," ","t","h","e"," ","D","a","t","a",".">>)

N_lower == Para(<<"t","h","e"," ","f","i","t",":"," ","i","t"," ","i","s"," ","\"","f","i","t","\"">>)

\* a synopsis that ends with a quoted sentence
N_quoted == Para(<<"R","e","t","u","r","n"," ","\"","t","h","e"," ","f","i","t",".","\"">>)

N_v1291 == Para(v1291)

N_v12101 == Para(v12101)

N_notes == Rubric(<<"N","o","t","e","s">>)

N_references == Rubric(<<"R","e","f","e","r","e","n","c","e","s">>)

N_examples == Rubric(<<"E","x","a","m","p","l","e","s">>)

N_example == Rubric(<<"E","x","a","m","p","l","e">>)

N_other == Rubric(<<"R","a","i","s","e","s">>)

N_fieldlist ==
    Elem("field_list",
         << Field(<<"p","a","r","a","m"," ","i","d">>, << Para(<<"T","h","e"," ","d","a","t","a"," ","s","e","t",".">>) >>),
            Field(<<"t","y","p","e"," ","i","d">>, << Para(<<"i","n","t">>) >>) >>)

N_raises == Elem("field_list", << Field(<<"r","a","i","s","e","s">>, << Para(<<"I","O","E","r","r","o","r">>) >>) >>)

N_warning == Elem("warning", << Para(<<"S","l","o","w",".">>) >>)

N_warning2 == Elem("warning", << Para(<<"S","l","o","w",".">>), Para(<<"V","e","r","y",".">>) >>)

N_seealso ==
    Elem("seealso",
         << Elem("paragraph",
                 << Elem("literal", << TextLeaf(<<"s","h","e","r","p","a",".","a","s","t","r","o",".","u","i",".","G","r","o","u","p">>) >>),
                    TextLeaf(<<","," ">>),
                    Elem("literal", << TextLeaf(<<"c","a","l","c">>) >>) >>) >>)

\* a See Also naming a symbol of another package
N_badseealso ==
    Elem("seealso",
         << Elem("paragraph",
                 << Elem("literal", << TextLeaf(<<"n","u","m","p","y",".","s","u","m">>) >>) >>) >>)

N_doctest == Node("doctest_block", << >>, << TextLeaf(<<">",">",">"," ","f","i","t","(",")">>) >>, "preserve")

N_literal == Node("literal_block", << >>, << TextLeaf(<<"f","i","t","(","1",")">>) >>, "preserve")

N_footnote ==
    Elem("footnote", << Elem("label", << TextLeaf(<<"1">>) >>), Para(<<"A"," ","r","e","f",".">>) >>)

\* a node no converter handles
N_comment == Elem("comment", << TextLeaf(<<"x">>) >>)

N_system == Elem("system_message", << Para(<<"b","a","d">>) >>)

\* the nodes the documents given to convert_docutils are made of
DocNodes ==
    { N_syntax, N_text, N_fieldlist, N_warning, N_seealso, N_notes,
      N_references, N_examples, N_doctest, N_footnote }

\* the nodes the lists given to one extractor are made of
ListNodes ==
    DocNodes \cup { N_badsyntax, N_lower, N_quoted, N_v1291, N_v12101, N_example, N_other,
                    N_raises, N_warning2, N_badseealso, N_literal, N_comment,
                    N_system }

\* the nodes of a run after an Examples rubric
RunNodes == { N_doctest, N_lower, N_text, N_literal }

\* all lists of at most n elements of S
ListsUpTo(S, n) == UNION { [1..k -> S] : k \in 0..n }

\* a document with every section
FullDoc ==
    << N_syntax, N_text, N_text, N_fieldlist, N_warning, N_seealso, N_notes,
       N_text, N_references, N_footnote, N_examples, N_text, N_doctest >>

\* documents whose sections are not in the usual order
LateDoc ==
    << N_text, N_raises, N_seealso, N_notes, N_text, N_notes, N_doctest,
       N_examples, N_doctest, N_references, N_footnote >>

Docs == ListsUpTo(DocNodes, MaxDocLen) \cup { FullDoc, LateDoc }

Lists ==
    ListsUpTo(ListNodes, MaxListLen)
    \cup { << N_examples >> \o r : r \in ListsUpTo(RunNodes, MaxRunLen) }

\* the nodes given to astext: text leaves, inline markup, nodes astext does
\* not know, footnotes, and containers of these down to two levels
InlineTags ==
    {"reference", "literal", "emphasis", "strong", "title_reference",
     "footnote_reference"}

ContainerTags == {"paragraph", "list_item", "enumerated_list"}

AstextLeaves ==
    { TextLeaf(<<"F","i","t"," ","i","t">>), TextLeaf(<< >>) }
    \cup { Elem(t, << TextLeaf(<<"f","i","t">>) >>) : t \in InlineTags }
    \cup { Elem("emphasis", << TextLeaf(<<"a">>), Elem("strong", << TextLeaf(<<"b">>) >>) >>),
           N_system, N_comment, N_notes, Elem("bullet_list", << >>) }

AstextFootnotes ==
    { N_footnote,
      Elem("footnote", << Elem("label", << TextLeaf(<<"2">>) >>),
                          Elem("enumerated_list",
                               << Elem("list_item", << Para(<<"A"," ","r","e","f",".">>) >>),
                                  Elem("list_item", << Para(<<"B">>) >>) >>) >>),
      Elem("footnote", << Elem("label", << TextLeaf(<<"1">>) >>), Para(<<"A"," ","r","e","f",".">>),
                          Para(<<"m","o","r","e">>) >>),
      Elem("footnote", << Elem("label", << TextLeaf(<<"1">>) >>),
                          Elem("bullet_list", << Elem("list_item", << Para(<<"A">>) >>) >>) >>),
      Elem("footnote", << Elem("label", << TextLeaf(<<"1">>) >>),
                          Elem("paragraph", << TextLeaf(<<"A">>), N_comment >>) >>),
      Elem("footnote", << Para(<<"1">>), Para(<<"A"," ","r","e","f",".">>) >>),
      Elem("footnote", << Elem("label", << TextLeaf(<<"1">>) >>) >>) }

AstextInner ==
    AstextLeaves
    \cup { Elem(t, kids) : t \in ContainerTags,
                           kids \in ListsUpTo({ TextLeaf(<<"F","i","t"," ","i","t">>), N_comment,
                                                Elem("title_reference",
                                                     << TextLeaf(<<"f","i","t">>) >>) }, 1) }

AstextNodes ==
    AstextLeaves \cup AstextFootnotes
    \cup { Elem(t, kids) : t \in ContainerTags,
                           kids \in ListsUpTo(AstextInner \cup { N_footnote }, MaxKids) }

Symbol(kind, mtype, strval) == [kind |-> kind, mtype |-> mtype, strval |-> strval]

NoSymbol == Symbol("none", << >>, << >>)

FunctionSymbol == Symbol("function", << >>, << >>)

\* the symbols of sherpa.astro.ui the model knows: name, symbol, signature
\* (sym_to_sig), in sorted order of the names
UiSymbols ==
    << [name |-> <<"c","a","l","c">>, symbol |-> FunctionSymbol, sig |-> <<"c","a","l","c","(","i","d","=","N","o","n","e",")">>],
       [name |-> <<"f","i","t">>, symbol |-> FunctionSymbol, sig |-> <<"f","i","t","(","i","d","=","N","o","n","e",")">>],
       [name |-> <<"g","r","o","u","p">>, symbol |-> FunctionSymbol, sig |-> <<"g","r","o","u","p","(","i","d","=","N","o","n","e",")">>],
       [name |-> <<"x","s","a","p","e","c">>,
        symbol |-> Symbol("xsadd", <<"x","s","a","p","e","c">>, <<"x","s","a","p","e","c",".","m","d","l">>),
        sig |-> <<"x","s","a","p","e","c">>] >>

\* an ahelp record (the value of find_metadata)
Metadata(key, refkeywords, context) ==
    [key |-> key, refkeywords |-> refkeywords, seealsogroups |-> <<"s","h",".","f","i","t">>,
     displayseealsogroups |-> << >>, context |-> context]


\* the fields of the field lists given to find_fieldlist: two parameters with
\* their types, names that end in a comma (an attribute with no text, one
\* with a text, a parameter), an attribute, and the fields that are not
\* parameters
FieldAlphabet ==
    { Field(<<"p","a","r","a","m"," ","a">>, << Para(<<"A",".">>) >>), Field(<<"t","y","p","e"," ","a">>, << Para(<<"i","n","t">>) >>),
      Field(<<"p","a","r","a","m"," ","b">>, << Para(<<"B",".">>) >>), Field(<<"t","y","p","e"," ","b">>, << Para(<<"s","t","r">>) >>),
      Field(<<"i","v","a","r"," ","a",",">>, << >>), Field(<<"i","v","a","r"," ","b">>, << Para(<<"B","o","t","h",".">>) >>),
      Field(<<"i","v","a","r"," ","a",",">>, << Para(<<"C",".">>) >>), Field(<<"p","a","r","a","m"," ","a",",">>, << Para(<<"A",".">>) >>),
      Field(<<"r","e","t","u","r","n","s">>, << Para(<<"R",".">>) >>), Field(<<"r","t","y","p","e">>, << Para(<<"i","n","t">>) >>),
      Field(<<"r","a","i","s","e","s">>, << Para(<<"I","O","E","r","r","o","r">>) >>) }

\* two param/type pairs, pair after pair
N_twopairs ==
    Elem("field_list",
         << Field(<<"p","a","r","a","m"," ","a">>, << Para(<<"A",".">>) >>), Field(<<"t","y","p","e"," ","a">>, << Para(<<"i","n","t">>) >>),
            Field(<<"p","a","r","a","m"," ","b">>, << Para(<<"B",".">>) >>), Field(<<"t","y","p","e"," ","b">>, << Para(<<"s","t","r">>) >>) >>)

\* the same fields, the types after the two parameters
N_interleaved ==
    Elem("field_list",
         << Field(<<"p","a","r","a","m"," ","a">>, << Para(<<"A",".">>) >>), Field(<<"p","a","r","a","m"," ","b">>, << Para(<<"B",".">>) >>),
            Field(<<"t","y","p","e"," ","b">>, << Para(<<"s","t","r">>) >>), Field(<<"t","y","p","e"," ","a">>, << Para(<<"i","n","t">>) >>) >>)

FieldLists ==
    { Elem("field_list", fs) : fs \in ListsUpTo(FieldAlphabet, MaxFields) }
    \cup { N_twopairs, N_interleaved }

\* what find_fieldlist gives for these lists: the argument of extract_params
FieldInfos ==
    { find_fieldlist(<< fl >>).section :
        fl \in { f \in FieldLists : find_fieldlist(<< f >>).exc = "" } }

\* the inline nodes of the paragraphs of the See Also blocks given to
\* find_seealso: names with and without a module path, the text between two
\* names, a name of another package and a node that is not a name
SeealsoTokens ==
    { Elem("literal", << TextLeaf(<<"s","h","e","r","p","a",".","a","s","t","r","o",".","u","i",".","G","r","o","u","p">>) >>),
      Elem("literal", << TextLeaf(<<"c","a","l","c">>) >>),
      TextLeaf(<<"G","r","o","u","p">>), TextLeaf(<<","," ">>), TextLeaf(<<" ">>),
      Elem("literal", << TextLeaf(<<"n","u","m","p","y",".","s","u","m">>) >>),
      Elem("emphasis", << TextLeaf(<<"c","a","l","c">>) >>) }

SeealsoItem(term) ==
    Elem("definition_list_item",
         << Elem("term", << term, TextLeaf(<<" ",":"," ","f","n">>) >>),
            Elem("definition", << Para(<<"F","i","t",".">>) >>) >>)

SeealsoNodes ==
    { Elem("seealso", << Elem("paragraph", toks) >>) :
        toks \in ListsUpTo(SeealsoTokens, MaxTokens) }
    \cup { Elem("seealso",
                << Elem("definition_list", [ i \in 1..Len(toks) |-> SeealsoItem(toks[i]) ]) >>) :
             toks \in ListsUpTo(SeealsoTokens, MaxTokens - 1) }
    \cup { Elem("seealso", << >>), Elem("seealso", << N_text, N_text >>),
           Elem("seealso", << Elem("bullet_list", << >>) >>) }

N_v12100 == Para(v12100)

\* a literal block whose text is a version sentence
N_v1291block == Node("literal_block", << >>, << TextLeaf(v1291) >>, "preserve")

\* the nodes of a run after a Notes rubric
NotesRunNodes ==
    { N_text, N_v1291, N_v12100, N_v12101, N_v1291block, N_references, N_comment }

NotesLists ==
    { << N_notes >> \o r : r \in ListsUpTo(NotesRunNodes, MaxNotesLen) }

\* a document whose Notes section is one version sentence
GatedDoc == << N_text, N_notes, N_v1291 >>

\* the names given to create_seealso
SeealsoNames == { <<"G","r","o","u","p">>, <<"c","a","l","c">>, <<"f","i","t">>, <<"F","i","t">>, <<"f","i","t","_","b","k","g">>, <<"x","s","a","p","e","c">> }

SeealsoLists ==
    { None } \cup { Some(ns) : ns \in ListsUpTo(SeealsoNames, MaxSeealso) }

\* the tables given to convert_table: the cells are empty, hold one
\* paragraph, two paragraphs or a list
Entry(kids) == Elem("entry", kids)

TableCells ==
    { Entry(<< >>), Entry(<< Para(<<"N","a","m","e">>) >>), Entry(<< Para(<<"x">>) >>),
      Entry(<< Para(<<"a">>), Para(<<"b">>) >>),
      Entry(<< Elem("bullet_list", << >>) >>) }

TableRows ==
    { Elem("row", cells) : cells \in ListsUpTo(TableCells, MaxCells) \ { << >> } }

HeaderRow == Elem("row", << Entry(<< Para(<<"N","a","m","e">>) >>), Entry(<< Para(<<"D","e","s","c","r","i","p","t","i","o","n">>) >>) >>)

Colspec == Elem("colspec", << >>)

TableOf(members) == Elem("table", << Elem("tgroup", members) >>)

TableNodes ==
    { TableOf(<< Colspec, Colspec >> \o head \o << Elem("tbody", rows) >>) :
        head \in { << >>, << Elem("thead", << HeaderRow >>) >> },
        rows \in ListsUpTo(TableRows, MaxRows) }
    \cup { Elem("table", << >>),
           Elem("table", << Elem("title", << TextLeaf(<<"T">>) >>),
                            Elem("tgroup", << Elem("tbody", << HeaderRow >>) >>) >>),
           Elem("table", << Elem("tgroup", << >>), Elem("tgroup", << >>) >>),
           Elem("table", << Elem("tbody", << HeaderRow >>) >>),
           TableOf(<< Colspec, Elem("tfoot", << >>) >>),
           TableOf(<< Elem("tbody", << Para(<<"x">>) >>) >>),
           TableOf(<< Elem("tbody", << Elem("row", << Para(<<"x">>) >>) >>) >>),
           Elem("paragraph", << Elem("tgroup", << >>) >>) }

\* the lists and predicates given to splitWhile on its own: the numbers of
\* its doctests and every predicate over them
SplitElems == { 1, 2, 5 }
SplitLists == ListsUpTo(SplitElems, MaxSplitLen)
SplitPreds == [SplitElems -> BOOLEAN]
(***************************************************************************)
(* parsers/ahelp.py and helpers.py                                         *)
(***************************************************************************)
\* an ahelp file of $ASCDS_INSTALL/share/doc/xml: the attributes of its ENTRY,
\* each None when the file does not give it
AhelpFile(pkg, key, refkeywords, context) ==
    [pkg |-> pkg, key |-> key, refkeywords |-> refkeywords,
     seealsogroups |-> Some(<<"s","h",".","f","i","t">>), displayseealsogroups |-> None,
     context |-> context]

\* find_metadata.clean
clean_attr(v) == IF IsNone(v) THEN << >> ELSE v[1]

\* a faulty find_metadata: the synonyms are tried from the last to the first
find_metadata_last_first(files, name0, synonyms) ==
    LET name  == IF name0 = <<"g","r","o","u","p">> THEN <<"g","r","o","u","p","_","s","h","e","r","p","a">> ELSE name0
        names == << name >> \o (IF IsNone(synonyms) THEN << >> ELSE synonyms[1])
        hits  == { i \in 1..Len(names) : names[i] \in DOMAIN files }
        n     == names[CHOOSE i \in hits : \A j \in hits : j <= i]
        expected_key == IF name = <<"g","r","o","u","p","_","s","h","e","r","p","a">> THEN <<"g","r","o","u","p">> ELSE n
        entry == files[n]
    IN  IF hits = {} THEN Raise("ValueError")
        ELSE IF entry.pkg # Some(<<"s","h","e","r","p","a">>) THEN Raise("IOError")
        ELSE IF entry.key # Some(expected_key) THEN Raise("IOError")
        ELSE Ok([key |-> IF name = <<"g","r","o","u","p","_","s","h","e","r","p","a">> THEN <<"g","r","o","u","p">> ELSE name,
                 refkeywords |-> clean_attr(entry.refkeywords),
                 seealsogroups |-> clean_attr(entry.seealsogroups),
                 displayseealsogroups |-> clean_attr(entry.displayseealsogroups),
                 context |-> clean_attr(entry.context)])

\* files maps the names of the ahelp files (without .xml) to their contents;
\* synonyms is None or one list of names
find_metadata(files, name0, synonyms) ==
    LET name  == IF name0 = <<"g","r","o","u","p">> THEN <<"g","r","o","u","p","_","s","h","e","r","p","a">> ELSE name0
        names == << name >> \o (IF IsNone(synonyms) THEN << >> ELSE synonyms[1])
        hits  == { i \in 1..Len(names) : names[i] \in DOMAIN files }
        n     == names[CHOOSE i \in hits : \A j \in hits : i <= j]
        expected_key == IF name = <<"g","r","o","u","p","_","s","h","e","r","p","a">> THEN <<"g","r","o","u","p">> ELSE n
        entry == files[n]
    IN  IF hits = {} THEN Raise("ValueError")
        ELSE IF entry.pkg # Some(<<"s","h","e","r","p","a">>) THEN Raise("IOError")
        ELSE IF entry.key # Some(expected_key) THEN Raise("IOError")
        ELSE Ok([key |-> IF name = <<"g","r","o","u","p","_","s","h","e","r","p","a">> THEN <<"g","r","o","u","p">> ELSE name,
                 refkeywords |-> clean_attr(entry.refkeywords),
                 seealsogroups |-> clean_attr(entry.seealsogroups),
                 displayseealsogroups |-> clean_attr(entry.displayseealsogroups),
                 context |-> clean_attr(entry.context)])

\* xmldoc is what convert_docutils returned; the value is the DOCTYPE written
save_doc(xmldoc) ==
    IF xmldoc.kind # "outdoc" THEN Raise("AttributeError")
    ELSE IF xmldoc.root = "cxchelptopics"
    THEN Ok([doctype |-> xmldoc.root, dtdname |-> "CXCHelp.dtd"])
    ELSE IF xmldoc.root = "cxcdocumentationpage"
    THEN Ok([doctype |-> xmldoc.root,
             dtdname |-> "/data/da/Docs/sxml_manuals/dtds/CXCDocPage.dtd"])
    ELSE Raise("ValueError")

(***************************************************************************)
(* doc2ahelp.py                                                            *)
(***************************************************************************)
\* doc is None (the symbol has no docstring) or one node list; the value is
\* None or what convert_docutils gives.  The call names its arguments as
\* convert_docutils declares them.
process_symbol(name, sym, dtd, ahelp, synonyms, doc) ==
    IF IsNone(doc) THEN None
    ELSE Some(convert_docutils(name, doc[1], Some(sym.sig), sym.symbol, ahelp,
                               synonyms, dtd))

\* the name of the file convert writes for a symbol
outfile_of(name, dtd) ==
    << IF name = <<"g","r","o","u","p">> THEN <<"g","r","o","u","p","_","s","h","e","r","p","a">> ELSE name,
       IF dtd = "sxml" THEN "sxml" ELSE "xml" >>

\* the synonym tables find_synonyms gives: synonyms maps an alias to the
\* name it stands for, originals maps a name to the list of its aliases
SynonymTable(pairs) ==
    [synonyms  |-> pairs,
     originals |-> { << p[2], << p[1] >> >> : p \in pairs }]

Lookup(table, k) ==
    IF \E p \in table : p[1] = k THEN Some((CHOOSE p \in table : p[1] = k)[2])
    ELSE None

\* syn_names of one symbol: [exc, val], val None or one list
syn_names_of(tables, name) ==
    IF ~IsNone(Lookup(tables.synonyms, name))
    THEN IF ~IsNone(Lookup(tables.originals, name)) THEN Raise("AssertionError")
         ELSE Ok(Some(<< Lookup(tables.synonyms, name)[1] >>))
    ELSE Ok(Lookup(tables.originals, name))

SymbolOf(name) ==
    UiSymbols[CHOOSE i \in 1..Len(UiSymbols) : UiSymbols[i].name = name]

\* restrict is None or one set of names
wanted_names(restrict, modelsonly) ==
    SelectSeq([ i \in 1..Len(UiSymbols) |-> UiSymbols[i].name ],
              LAMBDA n : /\ (IsNone(restrict) \/ n \in restrict[1])
                         /\ (~modelsonly \/ IsModelWrapper(SymbolOf(n).symbol))
                         /\ ~StartsWith(n, <<"_">>)
                         /\ n # <<"c","r","e","a","t","e","_","a","r","f">>
                         /\ n \notin {<<"a","b","s","o","r","p","t","i","o","n","v","o","i","g","t">>, <<"e","m","i","s","s","i","o","n","v","o","i","g","t">>})

\* a faulty loop body: only the records of symbols before the keyword in
\* the order are entered
add_filemaps_earlier(fm, to_process, name, refkeywords) ==
    LET keys == { Lower(k) : k \in SeqToSet(SplitChar(refkeywords, " ", << >>)) }
        hit  == { k \in keys : /\ k \in SeqToSet(to_process) /\ k # name
                               /\ \E i, j \in 1..Len(to_process) :
                                     to_process[i] = name /\ to_process[j] = k /\ i < j }
    IN  { p \in fm : p[1] \notin hit }
        \cup { << k, (IF IsNone(Lookup(fm, k)) THEN {} ELSE Lookup(fm, k)[1])
                      \cup {name} >> : k \in hit }

\* filemaps after the keywords of the record of name are added
add_filemaps(fm, to_process, name, refkeywords) ==
    LET keys == { Lower(k) : k \in SeqToSet(SplitChar(refkeywords, " ", << >>)) }
        hit  == { k \in keys : k \in SeqToSet(to_process) /\ k # name }
    IN  { p \in fm : p[1] \notin hit }
        \cup { << k, (IF IsNone(Lookup(fm, k)) THEN {} ELSE Lookup(fm, k)[1])
                      \cup {name} >> : k \in hit }

\* list(filemaps[name])
fmaps_of(fm, name) == IF IsNone(Lookup(fm, name)) THEN {} ELSE Lookup(fm, name)[1]

VARIABLES
    pc,           \* where convert is: "start", "prepass", "main", "done", "crashed"
    dtd,          \* the dtd argument of convert
    restrict,     \* the restrict argument: None or one set of names
    modelsonly,   \* the modelsonly argument
    ahelp_files,  \* the ahelp files of the CIAO installation
    docstrings,   \* the parsed docstring of each symbol of sherpa.astro.ui
    tables,       \* what find_synonyms gives
    to_process,   \* the names to process
    k,            \* the index in to_process of the loop convert is in
    filemaps,     \* keyword -> the names whose record lists it
    error_list,   \* the names process_symbol failed for
    nproc,        \* the number of files created
    written,      \* the files save_doc wrote, in order
    handled,      \* what the main loop did with each symbol so far
    crash,        \* the exception that ended convert, "" when none did
    op,           \* a function called on its own: its name, "" before the call
    args,         \* its arguments
    ret           \* what it returned

batch_vars ==
    << pc, dtd, restrict, modelsonly, ahelp_files, docstrings, tables, to_process, k,
       filemaps, error_list, nproc, written, handled, crash >>

call_vars == << op, args, ret >>

vars == << batch_vars, call_vars >>

(***************************************************************************)
(* doc2ahelp.py: convert, one loop iteration at a time                     *)
(***************************************************************************)
\* a faulty metadata_for: the key of a borrowed record is left as it is
metadata_for_keeping_key(files, tabs, fm, name) ==
    LET sn    == syn_names_of(tabs, name)
        own   == find_metadata(files, name, sn.val)
        fmaps == fmaps_of(fm, name)
        par   == find_metadata(files, CHOOSE f \in fmaps : TRUE, None)
    IN  IF sn.exc # "" THEN [exc |-> sn.exc, val |-> None, source |-> "none"]
        ELSE IF own.exc = ""
        THEN [exc |-> "", val |-> Some(own.val), source |-> "own"]
        ELSE IF own.exc # "ValueError"
        THEN [exc |-> own.exc, val |-> None, source |-> "none"]
        ELSE IF Cardinality(fmaps) # 1
        THEN [exc |-> "", val |-> None, source |-> "none"]
        ELSE IF par.exc # ""
        THEN [exc |-> par.exc, val |-> None, source |-> "none"]
        ELSE [exc |-> "", val |-> Some(par.val), source |-> "borrowed"]

\* the ahelp record convert gives process_symbol for one symbol:
\* [exc, val, source]; val is None or one record, source tells whose file
\* the record was read from
metadata_for(files, tabs, fm, name) ==
    LET sn    == syn_names_of(tabs, name)
        own   == find_metadata(files, name, sn.val)
        fname == IF name = <<"g","r","o","u","p">> THEN <<"g","r","o","u","p","_","s","h","e","r","p","a">> ELSE name
        fmaps == fmaps_of(fm, name)
        par   == find_metadata(files, CHOOSE f \in fmaps : TRUE, None)
    IN  IF sn.exc # "" THEN [exc |-> sn.exc, val |-> None, source |-> "none"]
        ELSE IF own.exc = ""
        THEN [exc |-> "", val |-> Some(own.val),
              source |-> IF fname \in DOMAIN files THEN "own" ELSE "synonym"]
        ELSE IF own.exc # "ValueError"
        THEN [exc |-> own.exc, val |-> None, source |-> "none"]
        ELSE IF Cardinality(fmaps) # 1
        THEN [exc |-> "", val |-> None, source |-> "none"]
        ELSE IF par.exc # ""
        THEN [exc |-> par.exc, val |-> None, source |-> "none"]
        ELSE [exc |-> "", val |-> Some([par.val EXCEPT !.key = name]),
              source |-> "borrowed"]

\* the entry of handled for one symbol
\* outcome is what convert did ("created", "error", "nodoc", "crash"), result
\* what process_symbol gave ("none", "raise", "nodes", "outdoc"), exc the
\* exception raised and source whose ahelp record was used
Handled(name, outcome, result, exc, source) ==
    [name |-> name, outcome |-> outcome, result |-> result, exc |-> exc,
     source |-> source]

\* the entry of written for one file
Written(name, outfile, dt, xml) ==
    [name |-> name, outfile |-> outfile, doctype |-> dt.doctype,
     dtdname |-> dt.dtdname, root |-> xml.root, attrs |-> xml.attrs,
     kids |-> xml.kids]

\* the exceptions "except Exception" catches
IsException(exc) == exc \notin {"", "SystemExit"}

\* the ahelp files the model is run with
File_fit ==
    AhelpFile(Some(<<"s","h","e","r","p","a">>), Some(<<"f","i","t">>), Some(<<"f","i","t"," ","C","a","l","c"," ","f","i","t","t","i","n","g">>), Some(<<"f","i","t","t","i","n","g">>))

File_fit_empty == AhelpFile(Some(<<"s","h","e","r","p","a">>), Some(<<"f","i","t">>), None, None)

File_group ==
    AhelpFile(Some(<<"s","h","e","r","p","a">>), Some(<<"g","r","o","u","p">>), Some(<<"c","a","l","c"," "," ","g","r","o","u","p","i","n","g">>), Some(<<"d","a","t","a">>))

File_xsapec ==
    AhelpFile(Some(<<"s","h","e","r","p","a">>), Some(<<"x","s","a","p","e","c">>), Some(<<"a","p","e","c"," ","f","i","t">>), Some(<<"m","o","d","e","l","s">>))

File_other == AhelpFile(Some(<<"c","i","a","o">>), Some(<<"f","i","t">>), Some(<<"f","i","t">>), Some(<<"t","o","o","l","s">>))

File_calc == AhelpFile(Some(<<"s","h","e","r","p","a">>), Some(<<"c","a","l","c">>), Some(<<"c","a","l","c"," ","s","u","m","s">>), Some(<<"u","t","i","l","i","t","i","e","s">>))

Files(pairs) == [ n \in { p[1] : p \in pairs } |-> (CHOOSE p \in pairs : p[1] = n)[2] ]

Stores ==
    { Files({}),
      Files({ << <<"f","i","t">>, File_fit >> }),
      Files({ << <<"f","i","t">>, File_fit_empty >>, << <<"x","s","a","p","e","c">>, File_xsapec >> }),
      Files({ << <<"f","i","t">>, File_fit >>, << <<"g","r","o","u","p","_","s","h","e","r","p","a">>, File_group >> }),
      Files({ << <<"f","i","t">>, File_other >> }),
      Files({ << <<"f","i","t">>, File_fit >>, << <<"c","a","l","c">>, File_calc >> }),
      Files({ << <<"c","a","l","c">>, File_calc >>, << <<"x","s","a","p","e","c">>, File_xsapec >> }) }

\* the tables when fit has the two aliases xsapec and calc, in this order
AliasTable ==
    [synonyms  |-> { << <<"x","s","a","p","e","c">>, <<"f","i","t">> >>, << <<"c","a","l","c">>, <<"f","i","t">> >> },
     originals |-> { << <<"f","i","t">>, << <<"x","s","a","p","e","c">>, <<"c","a","l","c">> >> >> }]

SynonymTables ==
    { SynonymTable({}), SynonymTable({ << <<"c","a","l","c">>, <<"f","i","t">> >> }), AliasTable }

\* one run of convert: its arguments, the ahelp files and the docstrings of
\* the symbols
Config(d, r, m, files, docs) ==
    [dtd |-> d, restrict |-> r, modelsonly |-> m, files |-> files, docs |-> docs]

UiNames == { UiSymbols[i].name : i \in 1..Len(UiSymbols) }

\* a docstring that converts
GoodDoc(n) == IF n = <<"f","i","t">> THEN Some(FullDoc) ELSE Some(<< N_syntax, N_text >>)

\* the docstrings that do not give a file: none, trailing content, a node
\* no converter handles, a See Also naming another package, a failing assert
FaultDocs ==
    { None, Some(<< N_text, N_other >>), Some(<< N_text, N_text, N_comment >>),
      Some(<< N_text, N_badseealso >>), Some(<< N_text, N_fieldlist, N_warning2 >>) }

\* the docstrings of the symbols (parsed), None for a symbol without one
AllGood == [ n \in UiNames |-> GoodDoc(n) ]

DocTables ==
    { AllGood }
    \cup { [AllGood EXCEPT ![n] = f] : n \in UiNames, f \in FaultDocs }
    \cup { [AllGood EXCEPT ![<<"c","a","l","c">>] = Some(<< N_text, N_text, N_comment >>),
                           ![<<"g","r","o","u","p">>] = f] : f \in FaultDocs }

Selections == { << None, FALSE >>, << Some({ <<"c","a","l","c">>, <<"f","i","t">>, <<"n","o","s","u","c","h">> }), FALSE >>,
                << None, TRUE >> }

Configs ==
    { Config("ahelp", None, FALSE, Files({ << <<"f","i","t">>, File_fit >> }), t) :
        t \in DocTables }
    \cup { Config(d, s[1], s[2], f, t) :
             d \in {"ahelp", "sxml"}, s \in Selections, f \in Stores,
             t \in { AllGood, [AllGood EXCEPT ![<<"c","a","l","c">>] = None] } }
    \cup { Config("html", None, FALSE, Files({}), AllGood) }

CallIdle == op = "" /\ args = << >> /\ ret = << >>

Init ==
    /\ pc = "start"
    /\ \E c \in Configs :
         /\ dtd = c.dtd
         /\ restrict = c.restrict
         /\ modelsonly = c.modelsonly
         /\ ahelp_files = c.files
         /\ docstrings = c.docs
    /\ tables = SynonymTable({})
    /\ to_process = << >>
    /\ k = 0
    /\ filemaps = {}
    /\ error_list = << >>
    /\ nproc = 0
    /\ written = << >>
    /\ handled = << >>
    /\ crash = ""
    /\ CallIdle

Crash(exc) ==
    /\ pc' = "crashed"
    /\ crash' = exc

\* the checks of convert and the list of names to process
Start ==
    /\ pc = "start"
    /\ \E t \in SynonymTables :
         IF dtd \notin {"ahelp", "sxml"}
         THEN /\ Crash("ValueError")
              /\ UNCHANGED << tables, to_process, k >>
         ELSE /\ tables' = t
              /\ to_process' = wanted_names(restrict, modelsonly)
              /\ k' = 1
              /\ pc' = "prepass"
              /\ crash' = ""
    /\ UNCHANGED << dtd, restrict, modelsonly, ahelp_files, docstrings, filemaps,
                    error_list, nproc, written, handled, call_vars >>

\* one pass of the loop that fills filemaps
PrePass ==
    /\ pc = "prepass"
    /\ k <= Len(to_process)
    /\ LET name == to_process[k]
           sn   == syn_names_of(tables, name)
           md   == find_metadata(ahelp_files, name, sn.val)
       IN  IF sn.exc # "" THEN Crash(sn.exc) /\ UNCHANGED << k, filemaps >>
           ELSE IF md.exc = "ValueError"
           THEN k' = k + 1 /\ UNCHANGED << pc, crash, filemaps >>
           ELSE IF md.exc # "" THEN Crash(md.exc) /\ UNCHANGED << k, filemaps >>
           ELSE /\ filemaps' = add_filemaps(filemaps, to_process, name,
                                            md.val.refkeywords)
                /\ k' = k + 1
                /\ UNCHANGED << pc, crash >>
    /\ UNCHANGED << dtd, restrict, modelsonly, ahelp_files, docstrings, tables, to_process,
                    error_list, nproc, written, handled, call_vars >>

\* the loop that fills filemaps is over
PrePassDone ==
    /\ pc = "prepass"
    /\ k > Len(to_process)
    /\ pc' = "main"
    /\ k' = 1
    /\ UNCHANGED << dtd, restrict, modelsonly, ahelp_files, docstrings, tables, to_process,
                    filemaps, error_list, nproc, written, handled, crash,
                    call_vars >>

\* the arguments of one call of process_symbol
process_args(name, d, ahelp, synonyms, doc) ==
    [name |-> name, dtd |-> d, ahelp |-> ahelp, synonyms |-> synonyms, doc |-> doc]

\* the arguments convert can call process_symbol with in a run of Configs:
\* the record of a symbol is its own, or the one of the single symbol that
\* names it as a keyword
ProcessInputs ==
    { process_args(n, c.dtd, metadata_for(c.files, t, fm, n).val,
                   syn_names_of(t, n).val, c.docs[n]) :
        c \in Configs, t \in SynonymTables, n \in UiNames,
        fm \in { {} } \cup { { << m, {o} >> } : m \in UiNames, o \in UiNames } }

\* the calls of process_symbol convert can make: the arguments and what
\* process_symbol gives for them
ProcessCalls ==
    { [args |-> in,
       xml  |-> process_symbol(in.name, SymbolOf(in.name), in.dtd, in.ahelp,
                               in.synonyms, in.doc)] : in \in ProcessInputs }

\* the body of the main loop for the symbol to_process[k]: in holds the
\* arguments of process_symbol and xml what it gave
main_loop_body(in, xml) ==
    /\ pc = "main"
    /\ k <= Len(to_process)
    /\ LET name == to_process[k]
           md   == metadata_for(ahelp_files, tables, filemaps, name)
       IN
       /\ in = process_args(name, dtd, md.val, syn_names_of(tables, name).val,
                            docstrings[name])
       /\ IF md.exc # ""
          THEN /\ Crash(md.exc)
               /\ handled' = Append(handled,
                                    Handled(name, "crash", "none", md.exc, md.source))
               /\ UNCHANGED << k, error_list, nproc, written >>
          ELSE IF IsNone(xml)
          THEN /\ k' = k + 1
               /\ handled' = Append(handled, Handled(name, "nodoc", "none", "", md.source))
               /\ UNCHANGED << pc, crash, error_list, nproc, written >>
          ELSE IF xml[1].kind = "raise" /\ IsException(xml[1].exc)
          THEN /\ error_list' = Append(error_list, name)
               /\ k' = k + 1
               /\ handled' = Append(handled,
                                    Handled(name, "error", "raise", xml[1].exc, md.source))
               /\ UNCHANGED << pc, crash, nproc, written >>
          ELSE IF xml[1].kind = "raise"
          THEN /\ Crash(xml[1].exc)
               /\ handled' = Append(handled,
                                    Handled(name, "crash", "raise", xml[1].exc, md.source))
               /\ UNCHANGED << k, error_list, nproc, written >>
          ELSE LET sv == save_doc(xml[1])
               IN  IF sv.exc # ""
                   THEN /\ Crash(sv.exc)
                        /\ handled' = Append(handled,
                                             Handled(name, "crash", xml[1].kind, sv.exc,
                                                     md.source))
                        /\ UNCHANGED << k, error_list, nproc, written >>
                   ELSE /\ written' = Append(written,
                                             Written(name, outfile_of(name, dtd),
                                                     sv.val, xml[1]))
                        /\ nproc' = nproc + 1
                        /\ k' = k + 1
                        /\ handled' = Append(handled,
                                             Handled(name, "created", "outdoc", "",
                                                     md.source))
                        /\ UNCHANGED << pc, crash, error_list >>
    /\ UNCHANGED << dtd, restrict, modelsonly, ahelp_files, docstrings, tables, to_process,
                    filemaps, call_vars >>

\* one pass of the main loop, for the symbol to_process[k]
ConvertSymbol ==
    \E call \in ProcessCalls : main_loop_body(call.args, call.xml)

\* the main loop is over
ConvertDone ==
    /\ pc = "main"
    /\ k > Len(to_process)
    /\ pc' = "done"
    /\ UNCHANGED << dtd, restrict, modelsonly, ahelp_files, docstrings, tables, to_process,
                    k, filemaps, error_list, nproc, written, handled, crash,
                    call_vars >>

Next == Start \/ PrePass \/ PrePassDone \/ ConvertSymbol \/ ConvertDone

Spec == Init /\ [][Next]_vars

(***************************************************************************)
(* The functions of parsers/docutils.py and helpers.py called on their own *)
(***************************************************************************)
\* the arguments of convert_docutils other than doc
Context(name, sig, symbol, metadata, synonyms, d) ==
    [name |-> name, sig |-> sig, symbol |-> symbol, metadata |-> metadata,
     synonyms |-> synonyms, dtd |-> d]

BaseContexts ==
    { Context(<<"f","i","t">>, Some(<<"f","i","t","(","i","d","=","N","o","n","e",")">>), FunctionSymbol, None, None, "ahelp"),
      Context(<<"f","i","t">>, None, NoSymbol,
              Some(Metadata(<<"f","i","t">>, <<"f","i","t"," ","z","e","t","a"," ","F","i","t">>, <<"f","i","t","t","i","n","g">>)),
              Some(<< <<"c","a","l","c">> >>), "sxml") }

CallSymbols ==
    { << <<"f","i","t">>, Some(<<"f","i","t","(","i","d","=","N","o","n","e",")">>), FunctionSymbol >>,
      << <<"x","s","a","p","e","c">>, Some(<<"x","s","a","p","e","c">>), Symbol("xsadd", <<"x","s","a","p","e","c">>, <<"x","s","a","p","e","c",".","m","d","l">>) >>,
      << <<"g","r","o","u","p">>, None, NoSymbol >> }

CallMetadata ==
    { None, Some(Metadata(<<"f","i","t">>, <<"f","i","t"," ","z","e","t","a"," ","F","i","t">>, <<"f","i","t","t","i","n","g">>)),
      Some(Metadata(<<"f","i","t">>, << >>, << >>)) }

CallSynonyms ==
    { None, Some(<< <<"c","a","l","c">> >>), Some(<< <<"t","h","e">> >>), Some(<< >>),
      Some(<< <<"c","a","l","c">>, <<"t","h","e">> >>) }

AllContexts ==
    { Context(s[1], s[2], s[3], m, y, d) :
        s \in CallSymbols, m \in CallMetadata, y \in CallSynonyms,
        d \in {"ahelp", "sxml", "html"} }

SampleDocs ==
    { FullDoc, LateDoc, GatedDoc, << N_text >>, << N_syntax, N_text, N_seealso >> }

CallInputs == (Docs \X BaseContexts) \cup (SampleDocs \X AllContexts)

\* the root tags of the documents given to save_doc
RootTags == { "cxchelptopics", "cxcdocumentationpage", "ENTRY", "html" }

InitCalls ==
    /\ pc = "start"
    /\ dtd = "ahelp"
    /\ restrict = None
    /\ modelsonly = FALSE
    /\ ahelp_files = Files({})
    /\ docstrings = AllGood
    /\ tables = SynonymTable({})
    /\ to_process = << >>
    /\ k = 0
    /\ filemaps = {}
    /\ error_list = << >>
    /\ nproc = 0
    /\ written = << >>
    /\ handled = << >>
    /\ crash = ""
    /\ CallIdle

\* the call of the function fn with the arguments a returns r
Call(fn, a, r) ==
    /\ op = ""
    /\ op' = fn
    /\ args' = a
    /\ ret' = r
    /\ UNCHANGED batch_vars

CallConvertDocutils ==
    \E in \in CallInputs :
      LET c == in[2]
      IN  Call("convert_docutils", << in[1], c >>,
               convert_docutils(c.name, in[1], c.sig, c.symbol, c.metadata,
                                c.synonyms, c.dtd))

CallSaveDoc ==
    \E root \in RootTags :
      LET xmldoc == cd_result("outdoc", "", root, NoEntryAttrs, << >>, << >>, << >>)
      IN  Call("save_doc", << xmldoc >>, save_doc(xmldoc))

CallFindSyntax ==
    \E indoc \in Lists, sig \in { None, Some(<<"f","i","t","(","i","d","=","N","o","n","e",")">>) } :
      Call("find_syntax", << indoc, sig >>, find_syntax(<<"f","i","t">>, sig, indoc))

CallFindSynopsis ==
    \E indoc \in Lists : Call("find_synopsis", << indoc >>, find_synopsis(indoc))

CallFindDesc ==
    \E indoc \in Lists : Call("find_desc", << indoc >>, find_desc(indoc))

CallFindFieldlist ==
    \E indoc \in Lists \cup { << fl >> : fl \in FieldLists } :
      Call("find_fieldlist", << indoc >>, find_fieldlist(indoc))

CallExtractParams ==
    \E fieldinfo \in FieldInfos \cup { None } :
      Call("extract_params", << fieldinfo >>, extract_params(fieldinfo))

CallFindWarning ==
    \E indoc \in Lists : Call("find_warning", << indoc >>, find_warning(indoc))

CallFindSeealso ==
    \E indoc \in Lists \cup { << n, N_notes >> : n \in SeealsoNodes } :
      Call("find_seealso", << indoc >>, find_seealso(indoc))

CallFindNotes ==
    \E indoc \in Lists \cup NotesLists :
      Call("find_notes", << indoc >>, find_notes(<<"f","i","t">>, indoc))

CallFindReferences ==
    \E indoc \in Lists : Call("find_references", << indoc >>, find_references(indoc))

CallFindExamples ==
    \E indoc \in Lists : Call("find_examples", << indoc >>, find_examples(indoc))

CallCreateSeealso ==
    \E name \in { <<"f","i","t">>, <<"G","r","o","u","p">>, <<"c","a","l","c">> } : \E seealso \in SeealsoLists :
      Call("create_seealso", << name, seealso >>, create_seealso(name, seealso))

CallConvertTable ==
    \E tbl \in TableNodes : Call("convert_table", << tbl >>, convert_table(tbl))

CallSplitWhile ==
    \E pred \in SplitPreds, xs \in SplitLists :
      LET locals == splitWhile_locals(pred, xs)
      IN  Call("splitWhile", << pred, xs >>,
               [exc |-> "", val |-> << locals.ls, locals.rs >>, xs |-> locals.xs])

CallAstext ==
    \E node \in AstextNodes : Call("astext", << node >>, astext(node))

NextCalls ==
    \/ CallConvertDocutils
    \/ CallSaveDoc
    \/ CallFindSyntax
    \/ CallFindSynopsis
    \/ CallFindDesc
    \/ CallFindFieldlist
    \/ CallExtractParams
    \/ CallFindWarning
    \/ CallFindSeealso
    \/ CallFindNotes
    \/ CallFindReferences
    \/ CallFindExamples
    \/ CallAstext
    \/ CallSplitWhile
    \/ CallConvertTable
    \/ CallCreateSeealso

SpecCalls == InitCalls /\ [][NextCalls]_vars

(***************************************************************************)
(* Properties                                                              *)
(***************************************************************************)
ExtractorNames ==
    { "find_syntax", "find_synopsis", "find_desc", "find_fieldlist",
      "find_warning", "find_seealso", "find_notes", "find_references",
      "find_examples" }

\* the extractor a statement of convert_docutils calls
ExtractorOf(step) ==
    CASE step = "find_fieldlist_2" -> "find_fieldlist"
      [] step = "find_seealso_again" -> "find_seealso"
      [] step = "find_notes_2" -> "find_notes"
      [] step = "find_references_again" -> "find_references"
      [] OTHER -> step

\* the statement step of the call log found its section
FoundBy(calls, step) ==
    \E i \in 1..Len(calls) : calls[i].step = step /\ calls[i].found

\* the calls convert_docutils makes, given which sections the log found
OrderOfCalls(calls) ==
    << "find_syntax", "find_synopsis", "find_desc", "find_fieldlist",
       "find_warning", "find_seealso", "find_fieldlist_2" >>
    \o (IF FoundBy(calls, "find_seealso") THEN << >> ELSE << "find_seealso_again" >>)
    \o << "find_notes", "find_notes_2", "find_references", "find_examples" >>
    \o (IF FoundBy(calls, "find_references") THEN << >>
        ELSE << "find_references_again" >>)

\* the order of the sections as the specification gives it
ClaimedOrder ==
    << "find_syntax", "find_synopsis", "find_desc", "find_fieldlist",
       "find_warning", "find_seealso", "find_fieldlist", "find_notes",
       "find_references", "find_examples" >>

\* the calls of the log, named by names, follow order, each on what the one
\* before returned
FollowsOrder(doc, r, order, names) ==
    LET c == r.calls
    IN  /\ Len(c) <= Len(order)
        /\ \A i \in 1..Len(c) : names[i] = order[i]
        /\ r.kind # "raise" => Len(c) = Len(order)
        /\ c # << >> => c[1].before = doc
        /\ \A i \in 1..(Len(c) - 1) : c[i].exc = "" /\ c[i + 1].before = c[i].after
        /\ r.kind = "nodes" => r.nodes = c[Len(c)].after /\ r.nodes # << >>
        /\ r.kind = "outdoc" => c[Len(c)].after = << >>

\* C1 (as amended): convert_docutils calls the extractors in the order syntax,
\* synopsis, description, field list, warning, see also, field list again,
\* see also again (only when none was found), notes, notes again, references,
\* examples, references again (only when none were found); each call is given
\* exactly the list the call before it returned, and what the last call
\* returned is what convert_docutils tests for trailing content.
C1_ExtractionOrder ==
    op = "convert_docutils" =>
        /\ FollowsOrder(args[1], ret, OrderOfCalls(ret.calls),
                        [i \in 1..Len(ret.calls) |-> ret.calls[i].step])
        /\ \A i \in 1..Len(ret.calls) :
             ret.calls[i].fn = ExtractorOf(ret.calls[i].step)

\* C1, a state where the case happens: the references were found by the call
\* made after find_examples had consumed the examples
C1_ReferencesAfterExamples ==
    /\ op = "convert_docutils"
    /\ ret.kind = "outdoc"
    /\ \E i \in 1..Len(ret.calls) :
         /\ ret.calls[i].step = "find_examples"
         /\ ret.calls[i].found
         /\ ret.calls[i].after # ret.calls[i].before
    /\ FoundBy(ret.calls, "find_references_again")

\* C1 as the specification states it: the ten extractors syntax, synopsis,
\* description, field list, warning, see also, field list, notes, references,
\* examples are applied once each in this order.
C1_OrderAsStated ==
    op = "convert_docutils" =>
        FollowsOrder(args[1], ret, ClaimedOrder,
                     [i \in 1..Len(ret.calls) |-> ret.calls[i].fn])

\* find_notes dropped a Notes section: the list starts with a Notes rubric,
\* every node up to the next rubric is one of the XSPEC version sentences, and
\* rest is the list from that rubric on
NotesDropped(indoc, rest) ==
    /\ indoc # << >>
    /\ indoc[1].tagname = "rubric"
    /\ Strip(NodeAstext(indoc[1])) = <<"N","o","t","e","s">>
    /\ \E n \in 1..Len(indoc) :
         /\ rest = SubSeq(indoc, n + 1, Len(indoc))
         /\ \A i \in 2..n : /\ indoc[i].tagname # "rubric"
                            /\ NodeAstext(indoc[i]) \in {v1291, v12100}
         /\ n < Len(indoc) => indoc[n + 1].tagname = "rubric"

\* the two shapes of an extractor's result
ShapeAsStated(indoc, found, rest) ==
    IF found THEN IsSuffix(rest, indoc) ELSE rest = indoc

ShapeOfResult(fn, indoc, found, rest) ==
    \/ ShapeAsStated(indoc, found, rest)
    \/ fn = "find_notes" /\ ~found /\ NotesDropped(indoc, rest)

\* the calls of extractors that returned, made on their own or by
\* convert_docutils: the function, its input, whether it gave a section, and
\* the list it gave back
CallsMade ==
    (IF op \in ExtractorNames /\ ret.exc = ""
     THEN { [fn |-> op, indoc |-> args[1], found |-> ~IsNone(ret.section),
             rest |-> ret.rest] }
     ELSE {})
    \cup
    (IF op = "convert_docutils"
     THEN { [fn |-> ret.calls[i].fn, indoc |-> ret.calls[i].before,
             found |-> ret.calls[i].found, rest |-> ret.calls[i].after] :
            i \in { j \in 1..Len(ret.calls) : ret.calls[j].exc = "" } }
     ELSE {})

\* C2 (as amended): every extractor that returns gives either a section and a
\* tail of its input, or no section and its input unchanged; the one exception
\* is find_notes, which gives no section and the tail after the Notes run when
\* the run is empty or holds nothing but XSPEC version sentences.
C2_ExtractorShape ==
    \A c \in CallsMade : ShapeOfResult(c.fn, c.indoc, c.found, c.rest)

\* C2, a state where the case happens: find_notes was given a Notes rubric
\* followed by a version sentence and returned no section and the empty tail
C2_NotesDropped ==
    /\ op = "find_notes"
    /\ args[1] = << N_notes, N_v1291 >>
    /\ IsNone(ret.section)
    /\ ret.rest = << >>

\* C2 as the specification states it: an extractor never returns no section
\* after having consumed nodes.
C2_ShapeAsStated ==
    \A c \in CallsMade : ShapeAsStated(c.indoc, c.found, c.rest)

RECURSIVE StatedExamples(_, _, _)
StatedExamples(run, count, open) ==
    IF run = << >> THEN count
    ELSE LET p    == Head(run)
             para == p.tagname = "paragraph"
             cont == para /\ count >= 1 /\ NodeAstext(p) # << >>
                     /\ IsLowerChar(NodeAstext(p)[1])
         IN  StatedExamples(Tail(run),
                            IF open \/ cont THEN count ELSE count + 1, para)

\* C5 as the specification states it: find_examples gives the examples of the
\* stated rule; the run code, lower-case paragraph, code is one example.
C5_PartitionAsStated ==
    (op = "find_examples" /\ ret.exc = "" /\ ~IsNone(ret.section)) =>
        Len(ret.section[1].kids) =
            StatedExamples(splitWhile(not_rubric_of(Tail(args[1])), Tail(args[1]))[1], 0, FALSE)

StrictlySorted(ts) == \A i \in 1..(Len(ts) - 1) : StrLess(ts[i], ts[i + 1])

\* the children of ENTRY with the tag t
KidsTagged(r, t) == SelectSeq(r.kids, LAMBDA e : e.tag = t)

\* the keywords of the SYNOPSIS of a document
SynopsisTokens(r) ==
    IF KidsTagged(r, "SYNOPSIS") = << >> THEN {}
    ELSE { clean(t) :
             t \in SeqToSet(Split(Lower(KidsTagged(r, "SYNOPSIS")[1].text[1]))) }
         \ { << >> }

MetadataTokens(c) ==
    IF IsNone(c.metadata) THEN {} ELSE SeqToSet(Split(c.metadata[1].refkeywords))

SynonymNames(c) == IF IsNone(c.synonyms) THEN << >> ELSE c.synonyms[1]

\* C6 (as amended): the refkeywords of the output ENTRY are the synonym names,
\* in the order given, followed by the sorted duplicate-free union of the
\* synopsis tokens and the tokens of the external record; the synonym names
\* themselves are neither sorted in nor checked for duplicates.
C6_Refkeywords ==
    (op = "convert_docutils" /\ ret.kind = "outdoc") =>
        LET ts   == Split(ret.attrs.refkeywords)
            n    == Len(SynonymNames(args[2]))
            rest == SubSeq(ts, n + 1, Len(ts))
        IN  /\ Len(ts) >= n
            /\ SubSeq(ts, 1, n) = SynonymNames(args[2])
            /\ StrictlySorted(rest)
            /\ SeqToSet(rest) = SynopsisTokens(ret) \cup MetadataTokens(args[2])

\* C6, a state where the case happens: a document converted with an external
\* record and a synonym, whose refkeywords are not sorted
C6_SynonymInFront ==
    /\ op = "convert_docutils"
    /\ ret.kind = "outdoc"
    /\ ~IsNone(args[2].metadata)
    /\ ~IsNone(args[2].synonyms)
    /\ ~StrictlySorted(Split(ret.attrs.refkeywords))

\* C6 as the specification states it: the refkeywords are sorted, without
\* duplicates, and are the union of the synopsis tokens, the tokens of the
\* external record and the synonym names.
C6_SortedAsStated ==
    (op = "convert_docutils" /\ ret.kind = "outdoc") =>
        LET ts == Split(ret.attrs.refkeywords)
        IN  /\ StrictlySorted(ts)
            /\ SeqToSet(ts) = SynopsisTokens(ret) \cup MetadataTokens(args[2])
                              \cup SeqToSet(SynonymNames(args[2]))

\* C7 as the specification states it: the context of the output ENTRY is not
\* empty; it is the context of the external record when the record has one
\* and what find_context gives otherwise.
C7_ContextAsStated ==
    (op = "convert_docutils" /\ ret.kind = "outdoc") =>
        LET c == args[2]
        IN  /\ ret.attrs.context # None
            /\ ret.attrs.context # Some(<< >>)
            /\ ret.attrs.context =
                 IF ~IsNone(c.metadata) /\ c.metadata[1].context # << >>
                 THEN Some(c.metadata[1].context)
                 ELSE Some(find_context(c.name, c.symbol))

Rank(e) ==
    CASE e.tag = "SYNOPSIS" -> 1
      [] e.tag = "SYNTAX" -> 2
      [] e.tag = "DESC" -> 3
      [] e.tag = "QEXAMPLELIST" -> 4
      [] e.tag = "ADESC" /\ (HasTitle(e, <<"P","A","R","A","M","E","T","E","R","S">>) \/ HasTitle(e, <<"A","T","T","R","I","B","U","T","E","S">>)) -> 5
      [] e.tag = "ADESC" /\ HasTitle(e, <<"W","a","r","n","i","n","g">>) -> 6
      [] e.tag = "ADESC" /\ (HasTitle(e, <<"N","o","t","e","s">>) \/ HasTitle(e, <<"N","e","w"," ","i","n"," ","C","I","A","O"," ","4",".","1","2">>)) -> 7
      [] e.tag = "ADESC" /\ HasTitle(e, <<"R","e","f","e","r","e","n","c","e","s">>) -> 8
      [] e.tag = "ADESC" /\ HasTitle(e, <<"X","S","P","E","C"," ","v","e","r","s","i","o","n">>) -> 9
      [] e.tag = "BUGS" -> 10
      [] e.tag = "LASTMODIFIED" -> 11
      [] OTHER -> 0

\* the number of children of ENTRY with the rank n
Ranked(r, n) == Len(SelectSeq(r.kids, LAMBDA e : Rank(e) = n))

\* the number of the statements steps that found a section
FoundAmong(calls, steps) == Cardinality({ s \in steps : FoundBy(calls, s) })

\* C9 (as amended): the children of the one ENTRY are the sections found, in
\* the order synopsis, syntax, description, examples, parameters, warnings,
\* notes, a second notes section when there is one, references; a section not
\* found has no child; then comes the XSPEC version section when the name
\* contains "xs", and BUGS and LASTMODIFIED are the last two.
C9_EntryChildren ==
    (op = "convert_docutils" /\ ret.kind = "outdoc") =>
        LET ks == ret.kids
            n  == Len(ks)
            xs == IF Contains(args[2].name, <<"x","s">>) THEN 1 ELSE 0
            m  == n - 2 - xs
            c  == ret.calls
        IN  /\ m >= 0
            /\ ks[n - 1].tag = "BUGS"
            /\ ks[n].tag = "LASTMODIFIED"
            /\ xs = 1 => Rank(ks[n - 2]) = 9
            /\ \A i \in 1..m : Rank(ks[i]) \in 1..8
            /\ \A i \in 1..m : \A j \in (i + 1)..m :
                 \/ Rank(ks[i]) < Rank(ks[j])
                 \/ Rank(ks[i]) = 7 /\ Rank(ks[j]) = 7 /\ j = i + 1
            /\ Ranked(ret, 1) = FoundAmong(c, {"find_synopsis"})
            /\ Ranked(ret, 2) = FoundAmong(c, {"find_syntax"})
            /\ Ranked(ret, 3) = FoundAmong(c, {"find_desc"})
            /\ Ranked(ret, 4) = IF FoundBy(c, "find_examples")
                                   \/ IsModelWrapper(args[2].symbol)
                                THEN 1 ELSE 0
            /\ Ranked(ret, 5) <= FoundAmong(c, {"find_fieldlist"})
            /\ Ranked(ret, 6) = FoundAmong(c, {"find_warning"})
            /\ Ranked(ret, 7) = FoundAmong(c, {"find_notes", "find_notes_2"})
            /\ Ranked(ret, 8) = IF FoundBy(c, "find_references")
                                   \/ FoundBy(c, "find_references_again")
                                THEN 1 ELSE 0

\* C9, a state where the case happens: a document of an XSPEC model with every
\* section was converted
C9_EverySection ==
    /\ op = "convert_docutils"
    /\ ret.kind = "outdoc"
    /\ Contains(args[2].name, <<"x","s">>)
    /\ \A n \in 1..11 : Ranked(ret, n) = 1

\* C9 as the specification states it: the children are the sections present,
\* each once, in the order synopsis, syntax, description, examples,
\* parameters, warnings, notes, references, followed by BUGS and LASTMODIFIED.
C9_ChildrenAsStated ==
    (op = "convert_docutils" /\ ret.kind = "outdoc") =>
        LET ks == ret.kids
            n  == Len(ks)
        IN  /\ n >= 2
            /\ ks[n - 1].tag = "BUGS"
            /\ ks[n].tag = "LASTMODIFIED"
            /\ \A i \in 1..(n - 2) : Rank(ks[i]) \in 1..8
            /\ \A i \in 1..(n - 2) : \A j \in (i + 1)..(n - 2) :
                 Rank(ks[i]) < Rank(ks[j])

\* C10: the root is cxchelptopics for the dtd "ahelp" and cxcdocumentationpage
\* for "sxml", any other dtd raises ValueError before an extractor is called;
\* save_doc writes the DOCTYPE of the root's tag with the DTD file of that
\* schema and raises ValueError for any other root.
C10_RootAndDoctype ==
    /\ op = "convert_docutils" =>
         /\ (args[2].dtd = "ahelp" /\ ret.kind = "outdoc")
                => ret.root = "cxchelptopics"
         /\ (args[2].dtd = "sxml" /\ ret.kind = "outdoc")
                => ret.root = "cxcdocumentationpage"
         /\ args[2].dtd \notin {"ahelp", "sxml"}
                => ret.kind = "raise" /\ ret.exc = "ValueError" /\ ret.calls = << >>
    /\ op = "save_doc" =>
         CASE args[1].root = "cxchelptopics" ->
                ret = Ok([doctype |-> "cxchelptopics", dtdname |-> "CXCHelp.dtd"])
           [] args[1].root = "cxcdocumentationpage" ->
                ret = Ok([doctype |-> "cxcdocumentationpage",
                          dtdname |-> "/data/da/Docs/sxml_manuals/dtds/CXCDocPage.dtd"])
           [] OTHER -> ret.exc = "ValueError"

\* C10, a state where the case happens: a document was converted for the
\* sxml schema
C10_SxmlDocument ==
    /\ op = "convert_docutils"
    /\ args[2].dtd = "sxml"
    /\ ret.kind = "outdoc"
    /\ ret.root = "cxcdocumentationpage"

(***************************************************************************)
(* astext                                                                  *)
(***************************************************************************)
\* the node types astext turns into text, the footnote apart
Vocabulary ==
    {"#text", "system_message"} \cup InlineTags \cup ContainerTags

\* the texts of the leaves of a node, one after the other
RECURSIVE LeafText(_)
LeafText(node) ==
    IF node.tagname = "#text" THEN node.text
    ELSE Flatten([ i \in 1..Len(node.children) |-> LeafText(node.children[i]) ])

\* the nodes the recursion of astext goes through below a container
RECURSIVE Visited(_)
Visited(node) ==
    {node}
    \cup (IF node.tagname \in ContainerTags
          THEN UNION { Visited(node.children[i]) : i \in 1..Len(node.children) }
          ELSE {})

\* C11: astext gives a text leaf, a reference, a literal, an emphasis and a
\* strong their inner text; a title_reference the text in backticks; a
\* footnote_reference the text in square brackets; a system_message the empty
\* string; a paragraph, list_item or enumerated_list the texts of its children
\* joined by one space; it returns a string when every node the recursion
\* goes through is of one of these types, and raises when one of them is of
\* another type (the footnote apart), at any depth.
C11_AstextVocabulary ==
    op = "astext" =>
        LET node == args[1]
            tag  == node.tagname
            kids == [ i \in 1..Len(node.children) |-> astext(node.children[i]) ]
        IN  /\ tag \in {"#text", "reference", "literal", "emphasis", "strong"}
                   => ret = Ok(LeafText(node))
            /\ tag = "title_reference" => ret = Ok(<<"bq">> \o LeafText(node) \o <<"bq">>)
            /\ tag = "footnote_reference" => ret = Ok(<<"[">> \o LeafText(node) \o <<"]">>)
            /\ tag = "system_message" => ret = Ok(<< >>)
            /\ tag \in ContainerTags =>
                   IF \A i \in 1..Len(kids) : kids[i].exc = ""
                   THEN ret = Ok(Join(<<" ">>, Vals(kids)))
                   ELSE ret.exc # ""
            /\ (\A v \in Visited(node) : v.tagname \in Vocabulary) => ret.exc = ""
            /\ (\E v \in Visited(node) : v.tagname \notin Vocabulary \cup {"footnote"})
                   => ret.exc # ""

\* C11, a state where the case happens: a paragraph holding a container that
\* holds a comment was given to astext, which raised
C11_UnknownBelow ==
    /\ op = "astext"
    /\ args[1].tagname = "paragraph"
    /\ \E i \in 1..Len(args[1].children) :
         /\ args[1].children[i].tagname \in ContainerTags
         /\ \E j \in 1..Len(args[1].children[i].children) :
              args[1].children[i].children[j].tagname = "comment"
    /\ \E i \in 1..Len(args[1].children) :
         args[1].children[i].tagname = "title_reference"
    /\ ret.exc = "AssertionError"

\* C12: for a footnote whose children are a label followed by a paragraph or
\* an enumerated list, astext returns "[" + label + "] " + astext(body), the
\* body text once, and raises when astext(body) raises; a footnote whose body
\* is of another type raises.
C12_FootnoteText ==
    (/\ op = "astext"
     /\ args[1].tagname = "footnote"
     /\ Len(args[1].children) >= 2
     /\ args[1].children[1].tagname = "label") =>
        LET label == LeafText(args[1].children[1])
            body  == astext(args[1].children[2])
        IN  IF args[1].children[2].tagname \notin {"paragraph", "enumerated_list"}
            THEN ret.exc # ""
            ELSE IF body.exc # "" THEN ret.exc # ""
            ELSE /\ ret = Ok(<<"[">> \o label \o <<"]"," ">> \o body.val)
                 /\ Len(ret.val) = Len(label) + 3 + Len(body.val)

\* C12, a state where the case happens: astext was given a footnote whose
\* body is an enumerated list of two items
C12_ListFootnote ==
    /\ op = "astext"
    /\ args[1].tagname = "footnote"
    /\ Len(args[1].children) = 2
    /\ args[1].children[1].tagname = "label"
    /\ args[1].children[2].tagname = "enumerated_list"
    /\ Len(args[1].children[2].children) = 2
    /\ ret = Ok(<<"[","2","]"," ","A"," ","r","e","f","."," ","B">>)

(***************************************************************************)
(* find_syntax, find_synopsis, find_desc                                   *)
(***************************************************************************)
\* a SYNTAX block of one line
SyntaxOf(line) ==
    El("SYNTAX", NoAttrs, None, << El("LINE", NoAttrs, Some(line), << >>) >>)

\* what find_syntax gives when it takes nothing from the list: the block of
\* the signature, or no block when there is no signature
SyntaxOfSignature(sig, indoc) ==
    [exc |-> "", section |-> IF IsNone(sig) THEN None ELSE Some(SyntaxOf(sig[1])),
     rest |-> indoc]

\* the first node is a paragraph whose text begins with "fit("
StartsLikeSyntax(indoc) ==
    /\ indoc[1].tagname = "paragraph"
    /\ StartsWith(Strip(LeafText(indoc[1])), <<"f","i","t","(">>)

\* C13 (as amended): when the first node is a paragraph whose text begins
\* with "<name>(" and ends with ")" the syntax block is that text and exactly
\* that node is consumed; when the text begins with "<name>(" and does not
\* end with ")" find_syntax raises an AssertionError and returns nothing; when
\* the first node is not a paragraph or its text does not begin with
\* "<name>(" nothing is consumed and the result is the block built from the
\* signature, or absent when the signature is null.
C13_SyntaxBlock ==
    (op = "find_syntax" /\ Len(args[1]) > 0) =>
        LET indoc == args[1]
            txt   == Strip(LeafText(indoc[1]))
        IN  IF ~StartsLikeSyntax(indoc) THEN ret = SyntaxOfSignature(args[2], indoc)
            ELSE IF EndsWith(txt, <<")">>) THEN ret = Found(SyntaxOf(txt), Tail(indoc))
            ELSE ret.exc = "AssertionError"

\* C13, a state where the case happens: with a signature, find_syntax was
\* given a paragraph that begins with "fit(" and does not end with ")", and
\* raised
C13_UnclosedSyntax ==
    /\ op = "find_syntax"
    /\ Len(args[1]) = 2
    /\ args[1][1] = N_badsyntax
    /\ ~IsNone(args[2])
    /\ ret.exc = "AssertionError"

\* C13 as the specification states it: a paragraph that begins with
\* "<name>(" and does not end with ")" is treated like any other first node:
\* nothing is consumed and the result is the block of the signature.
C13_SyntaxAsStated ==
    (op = "find_syntax" /\ Len(args[1]) > 0) =>
        LET indoc == args[1]
            txt   == Strip(LeafText(indoc[1]))
        IN  IF StartsLikeSyntax(indoc) /\ EndsWith(txt, <<")">>)
            THEN ret = Found(SyntaxOf(txt), Tail(indoc))
            ELSE ret = SyntaxOfSignature(args[2], indoc)

\* the characters find_synopsis.clean strips
CleanedChars == { ",", ".", ":", "\"", "'" }

\* C14 as the specification states it: given a paragraph first, find_synopsis
\* consumes exactly that node, returns its trimmed text as the synopsis, and
\* returns as keywords a sorted duplicate-free list of which no keyword begins
\* or ends with one of the characters , . : " ' ; given another node first it
\* returns no synopsis, no keywords and the list unchanged.
C14_SynopsisAsStated ==
    (op = "find_synopsis" /\ Len(args[1]) > 0) =>
        LET indoc == args[1]
        IN  IF indoc[1].tagname = "paragraph"
            THEN /\ ret.exc = ""
                 /\ ret.rest = Tail(indoc)
                 /\ ret.section = Some(El("SYNOPSIS", NoAttrs,
                                          Some(Strip(LeafText(indoc[1]))), << >>))
                 /\ StrictlySorted(ret.keywords)
                 /\ \A i \in 1..Len(ret.keywords) :
                      LET kw == ret.keywords[i]
                      IN  kw # << >> => /\ kw[1] \notin CleanedChars
                                        /\ kw[Len(kw)] \notin CleanedChars
            ELSE /\ ret.exc = ""
                 /\ ret.rest = indoc
                 /\ IsNone(ret.section)
                 /\ ret.keywords = << >>

\* the node types that end the description
DescStops == {"rubric", "field_list", "container", "seealso"}

\* n is the length of the longest prefix of indoc without a node of DescStops
IsDescPrefix(indoc, n) ==
    /\ \A i \in 1..n : indoc[i].tagname \notin DescStops
    /\ n < Len(indoc) => indoc[n + 1].tagname \in DescStops

\* C15: find_desc takes the longest prefix of the list whose nodes are none
\* of rubric, field_list, container or seealso: what it gives back is empty or
\* starts with a node of one of those types, the children of DESC are the
\* converted blocks of the nodes taken, in order, and with an empty prefix
\* there is no DESC and the list is unchanged; it raises only when the
\* conversion of a node of the prefix raises.
C15_DescPrefix ==
    op = "find_desc" =>
        \E n \in 0..Len(args[1]) :
            LET indoc == args[1]
                bs    == [ i \in 1..n |-> make_para_blocks(indoc[i]) ]
            IN  /\ IsDescPrefix(indoc, n)
                /\ IF n = 0 THEN ret = Absent(indoc)
                   ELSE IF \E i \in 1..n : bs[i].exc # "" THEN ret.exc # ""
                   ELSE ret = Found(El("DESC", NoAttrs, None, Flatten(Vals(bs))),
                                    SubSeq(indoc, n + 1, Len(indoc)))

\* C15, a state where the case happens: find_desc was given a paragraph
\* and a Notes rubric, and took the paragraph and gave back the rubric
C15_StopsAtRubric ==
    /\ op = "find_desc"
    /\ args[1] = << N_text, N_notes >>
    /\ ret.exc = ""
    /\ ret.rest = << N_notes >>
    /\ Len(ret.section[1].kids) = 1


(***************************************************************************)
(* find_fieldlist and the parameter section                                *)
(***************************************************************************)
\* the i-th smallest number of a set of numbers
Nth(I, i) == CHOOSE n \in I : Cardinality({ m \in I : m < n }) = i - 1

\* the tokens of the name of a field, its first token and its parameter name
FieldToks(f) == SplitFirst(field_name_of(f)[1], " ")

FieldKind(f) == token_tag(FieldToks(f)[1])

FieldPname(f) == FieldToks(f)[2]

\* the positions of the fields of the given kinds
FieldsOf(fields, kinds) == { i \in 1..Len(fields) : FieldKind(fields[i]) \in kinds }

\* the positions where a parameter name appears for the first time
FirstSeen(fields) ==
    LET P == FieldsOf(fields, {"param", "type", "ivar"})
    IN  { i \in P : \A j \in P : j < i => FieldPname(fields[j]) # FieldPname(fields[i]) }

\* the body of the last field of a kind given for a parameter name
BodyGiven(fields, kind, pname) ==
    LET J == { i \in FieldsOf(fields, {kind}) : FieldPname(fields[i]) = pname }
    IN  IF J = {} THEN None
        ELSE Some(field_body_of(fields[Nth(J, Cardinality(J))])[1])

\* one record for each distinct parameter name, in the order the names first
\* appear, with the bodies given for the name
RecordPerName(fields, params) ==
    LET F == FirstSeen(fields)
    IN  /\ Len(params) = Cardinality(F)
        /\ \A q \in 1..Len(params) :
             LET pname == FieldPname(fields[Nth(F, q)])
             IN  params[q] = [name  |-> pname,
                              param |-> BodyGiven(fields, "param", pname),
                              type  |-> BodyGiven(fields, "type", pname),
                              ivar  |-> BodyGiven(fields, "ivar", pname)]

\* the returns, rtype and raises fields are kept in lists of their own
ListsApart(fields, section) ==
    LET R == FieldsOf(fields, {"returns", "rtype"})
        X == FieldsOf(fields, {"raises"})
    IN  /\ Len(section.returns) = Cardinality(R)
        /\ \A q \in 1..Len(section.returns) :
             section.returns[q] = [kind |-> FieldKind(fields[Nth(R, q)]),
                                   body |-> field_body_of(fields[Nth(R, q)])[1]]
        /\ Len(section.raises) = Cardinality(X)
        /\ \A q \in 1..Len(section.raises) :
             section.raises[q] = [tokens |-> Tail(FieldToks(fields[Nth(X, q)])),
                                  body   |-> field_body_of(fields[Nth(X, q)])[1]]

\* an attribute field comes after a field whose parameter name ends in a comma
CommaBeforeIvar(fields) ==
    \E i \in FieldsOf(fields, {"param", "type", "ivar"}) :
       /\ EndsWith(Strip(FieldPname(fields[i])), <<",">>)
       /\ \E j \in FieldsOf(fields, {"ivar"}) : i < j

\* the titles of the titled children of the parameter section, in order
TitlesOf(adesc) ==
    LET T == { i \in 1..Len(adesc.kids) :
                 \E a \in adesc.kids[i].attrs : a[1] = "title" }
    IN  [ q \in 1..Cardinality(T) |->
            (CHOOSE a \in adesc.kids[Nth(T, q)].attrs : a[1] = "title")[2] ]

\* C16 (as amended): for a list that starts with a field list of well-formed
\* fields, find_fieldlist gives back the rest of the list; the returns and
\* rtype fields and the raises fields are kept in lists of their own and make
\* no parameter record; when no attribute field comes after a parameter name
\* that ends in a comma there is one record for each distinct parameter name,
\* in the order the names first appear, with the param, type and ivar bodies
\* given for the name however the fields interleave.  When the first field
\* names a parameter "P," and the second field is "ivar Q": if the first is
\* an attribute with an empty body the two are merged into one record named
\* "P, Q" that holds the body of the second; if the first is an attribute
\* with a body the two fields make two records; if the first is a param or
\* type field,
\* find_fieldlist raises KeyError.  The parameter section has, for records
\* that all have a param or ivar body, one titled entry for each record in
\* the order of the records (and "Return value" last when there is a returns
\* field).
C16_FieldRecords ==
    /\ (op = "find_fieldlist" /\ Len(args[1]) > 0
           /\ args[1][1].tagname = "field_list") =>
         LET fields == args[1][1].children
             first  == fields[1]
         IN  /\ ret.exc \in {"", "KeyError"}
             /\ ret.exc = "" =>
                  /\ ret.rest = Tail(args[1])
                  /\ ListsApart(fields, ret.section[1])
             /\ ~CommaBeforeIvar(fields) =>
                  /\ ret.exc = ""
                  /\ RecordPerName(fields, ret.section[1].params)
             /\ (Len(fields) >= 2 /\ FieldKind(first) \in {"param", "type", "ivar"}
                   /\ EndsWith(FieldPname(first), <<",">>)
                   /\ FieldKind(fields[2]) = "ivar") =>
                  IF FieldKind(first) # "ivar" THEN ret.exc = "KeyError"
                  ELSE IF Len(field_body_of(first)[1].children) = 0
                  THEN ret.exc = "" =>
                         StartsWith(ret.section[1].params[1].name,
                                    FieldPname(first) \o <<" ">> \o FieldPname(fields[2]))
                  ELSE Len(fields) = 2 =>
                         /\ ret.exc = ""
                         /\ RecordPerName(fields, ret.section[1].params)
    /\ (op = "extract_params" /\ ~IsNone(args[1]) /\ ret.exc = ""
          /\ ~IsNone(ret.val)) =>
         LET info == args[1][1]
         IN  (\A i \in 1..Len(info.params) :
                 ~IsNone(info.params[i].param) \/ ~IsNone(info.params[i].ivar)) =>
               TitlesOf(ret.val[1]) =
                 [ i \in 1..Len(info.params) |-> info.params[i].name ]
                 \o (IF Len(info.returns) > 0 THEN << <<"R","e","t","u","r","n"," ","v","a","l","u","e">> >> ELSE << >>)

\* C16, a state where the case happens: the field list of two parameters
\* whose types come after both of them, in the other order, gave two records,
\* a then b, each with its own param and type bodies
C16_Interleaved ==
    /\ op = "find_fieldlist"
    /\ args[1] = << N_interleaved >>
    /\ ret.exc = ""
    /\ Len(ret.section[1].params) = 2
    /\ ret.section[1].params[1].name = <<"a">>
    /\ ret.section[1].params[1].type = Some(Elem("field_body", << Para(<<"i","n","t">>) >>))
    /\ ret.section[1].params[2].name = <<"b">>
    /\ ret.section[1].params[2].param = Some(Elem("field_body", << Para(<<"B",".">>) >>))

\* C16 (as stated): whatever the fields, there is one record for each distinct
\* parameter name, in the order the names first appear
C16_RecordsAsStated ==
    (op = "find_fieldlist" /\ Len(args[1]) > 0
       /\ args[1][1].tagname = "field_list") =>
      /\ ret.exc = ""
      /\ RecordPerName(args[1][1].children, ret.section[1].params)

(***************************************************************************)
(* find_seealso                                                            *)
(***************************************************************************)
\* the text after the last full stop of a name
LastSegment(n) ==
    LET dots == { i \in 1..Len(n) : n[i] = "." }
    IN  IF dots = {} THEN n
        ELSE SubSeq(n, Nth(dots, Cardinality(dots)) + 1, Len(n))

\* the See Also node has one child, a paragraph of names and texts or a
\* definition list of items that each start with a term that starts with a
\* name or text
WellFormedSeealso(node) ==
    /\ Len(node.children) = 1
    /\ \/ /\ node.children[1].tagname = "paragraph"
          /\ \A i \in 1..Len(node.children[1].children) :
               node.children[1].children[i].tagname \in {"literal", "#text"}
       \/ /\ node.children[1].tagname = "definition_list"
          /\ \A i \in 1..Len(node.children[1].children) :
               LET item == node.children[1].children[i]
               IN  /\ item.tagname = "definition_list_item"
                   /\ Len(item.children) > 0
                   /\ item.children[1].tagname = "term"
                   /\ Len(item.children[1].children) > 0
                   /\ item.children[1].children[1].tagname \in {"literal", "#text"}

\* the texts of the names of a well-formed See Also node, bare commas included
RawNames(node) ==
    LET kids == node.children[1].children
    IN  IF node.children[1].tagname = "paragraph"
        THEN [ i \in 1..Len(kids) |-> NodeAstext(kids[i]) ]
        ELSE [ i \in 1..Len(kids) |-> NodeAstext(kids[i].children[1].children[1]) ]

\* out is what is left of the names raw when the bare commas are dropped,
\* a name is replaced by its last segment and only the first of equal names
\* is kept
CleanedNames(raw, out) ==
    LET K == { i \in 1..Len(raw) : Strip(raw[i]) # <<",">> }
        F == { i \in K : \A j \in K : j < i => LastSegment(raw[j]) # LastSegment(raw[i]) }
    IN  /\ Len(out) = Cardinality(F)
        /\ \A q \in 1..Len(out) : out[q] = LastSegment(raw[Nth(F, q)])

\* a name with a full stop that does not start with the package name
ForeignName(n) == Strip(n) # <<",">> /\ Contains(n, <<".">>) /\ ~StartsWith(n, <<"s","h","e","r","p","a",".">>)

\* C17 (as amended): find_seealso gives nothing and the list unchanged when
\* the list is empty or its first node is not a See Also node; for a
\* well-formed See Also node with no name of another package it gives the rest
\* of the list and the names: one for each term or inline node, bare commas
\* dropped, a name that starts with "sherpa." replaced by its last segment,
\* only the first of equal names kept; when a name has a full stop and does
\* not start with "sherpa." the program exits.
C17_SeealsoNames ==
    op = "find_seealso" =>
        LET indoc == args[1]
        IN  IF Len(indoc) = 0 \/ indoc[1].tagname # "seealso"
            THEN ret = Absent(indoc)
            ELSE IF ~WellFormedSeealso(indoc[1]) THEN ret.exc # ""
            ELSE LET raw == RawNames(indoc[1])
                 IN  IF \E i \in 1..Len(raw) : ForeignName(raw[i])
                     THEN ret.exc = "SystemExit"
                     ELSE /\ ret.exc = ""
                          /\ ret.rest = Tail(indoc)
                          /\ ~IsNone(ret.section)
                          /\ CleanedNames(raw, ret.section[1])

\* C17, a state where the case happens: the paragraph names Group with its
\* module path, a comma and Group again; the one name is Group
C17_PathAndDuplicate ==
    /\ op = "find_seealso"
    /\ args[1] = << Elem("seealso",
                         << Elem("paragraph",
                                 << Elem("literal", << TextLeaf(<<"s","h","e","r","p","a",".","a","s","t","r","o",".","u","i",".","G","r","o","u","p">>) >>),
                                    TextLeaf(<<","," ">>),
                                    TextLeaf(<<"G","r","o","u","p">>) >>) >>),
                    N_notes >>
    /\ ret = Found(<< <<"G","r","o","u","p">> >>, << N_notes >>)

\* C17 (as stated): for a well-formed See Also node the names are given,
\* every dotted name replaced by its last segment
C17_SeealsoAsStated ==
    (op = "find_seealso" /\ Len(args[1]) > 0 /\ args[1][1].tagname = "seealso"
       /\ WellFormedSeealso(args[1][1])) =>
      /\ ret.exc = ""
      /\ ret.rest = Tail(args[1])
      /\ CleanedNames(RawNames(args[1][1]), ret.section[1])

(***************************************************************************)
(* find_notes                                                              *)
(***************************************************************************)
\* the sentences of the notes that are dropped
GatingSentences ==
    { <<"T","h","i","s"," ","m","o","d","e","l"," ","i","s"," ","o","n","l","y"," ","a","v","a","i","l","a","b","l","e"," ","w","h","e","n"," ","u","s","e","d"," ","w","i","t","h"," ","X","S","P","E","C"," ","1","2",".","9",".","1"," ","o","r"," ","l","a","t","e","r",".">>,
      <<"T","h","i","s"," ","m","o","d","e","l"," ","i","s"," ","o","n","l","y"," ","a","v","a","i","l","a","b","l","e"," ","w","h","e","n"," ","u","s","e","d"," ","w","i","t","h"," ","X","S","P","E","C"," ","1","2",".","1","0",".","0"," ","o","r"," ","l","a","t","e","r",".">> }

\* the sentence that is turned into a section of its own
NewModelSentence ==
    <<"T","h","i","s"," ","m","o","d","e","l"," ","i","s"," ","o","n","l","y"," ","a","v","a","i","l","a","b","l","e"," ","w","h","e","n"," ","u","s","e","d"," ","w","i","t","h"," ","X","S","P","E","C"," ","1","2",".","1","0",".","1"," ","o","r"," ","l","a","t","e","r",".">>

\* the first n nodes are the run up to the next rubric
IsNotesRun(nodes, n) ==
    /\ \A i \in 1..n : nodes[i].tagname # "rubric"
    /\ n < Len(nodes) => nodes[n + 1].tagname = "rubric"

\* the positions of the nodes of the run that are not dropped
KeptOf(nodes, n) == { i \in 1..n : NodeAstext(nodes[i]) \notin GatingSentences }

HasNotesSection(doc) ==
    \E i \in 1..Len(doc.kids) :
       doc.kids[i].tag = "ADESC" /\ HasTitle(doc.kids[i], <<"N","o","t","e","s">>)

LexLess(a, b) ==
    \E i \in 1..Len(b) :
       /\ \A j \in 1..(i - 1) : j <= Len(a) /\ a[j] = b[j]
       /\ (i > Len(a) \/ (a[i] # b[i] /\ Ord(a[i]) < Ord(b[i])))

\* the token of a symbol and a name of its See Also: the two in lower case,
\* the smaller first
PairToken(name, s) ==
    IF LexLess(Lower(name), Lower(s)) THEN Lower(name) \o Lower(s)
    ELSE Lower(s) \o Lower(name)

\* the attribute: the tokens of the names, in order, with a blank between two
GroupsOf(name, names) ==
    Join(<<" ">>, [ i \in 1..Len(names) |-> PairToken(name, names[i]) ])

\* C19: create_seealso gives, for a list of names, one token for each name in
\* the order of the list, joined by blanks, a token being the symbol name and
\* the See Also name in lower case with the smaller of the two first, so that
\* the token of (a, b) is the token of (b, a); with no list it gives the empty
\* string; its second value is always empty.  The seealsogroups attribute of
\* a converted document is that of the names find_seealso gave and is empty
\* when there was no See Also, whatever the external record holds, and
\* displayseealsogroups is empty.
C19_SeealsoGroups ==
    /\ op = "create_seealso" =>
         /\ ret[2] = << >>
         /\ IF IsNone(args[2]) THEN ret[1] = << >>
            ELSE /\ ret[1] = GroupsOf(args[1], args[2][1])
                 /\ \A i \in 1..Len(args[2][1]) :
                      create_seealso(args[2][1][i], Some(<< args[1] >>))[1]
                        = PairToken(args[1], args[2][1][i])
    /\ (op = "convert_docutils" /\ ret.kind = "outdoc") =>
         LET S == { i \in 1..Len(ret.calls) :
                      ret.calls[i].fn = "find_seealso" /\ ret.calls[i].found }
         IN  /\ Cardinality(S) <= 1
             /\ ret.attrs.displayseealsogroups = << >>
             /\ ret.attrs.seealsogroups =
                  IF S = {} THEN << >>
                  ELSE GroupsOf(args[2].name,
                                find_seealso(ret.calls[Nth(S, 1)].before).section[1])

\* C19, a state where the case happens: the document of fit has a See Also
\* with Group and calc and the external record has groups of its own; the
\* attribute is made of the pairs
C19_PairsNotCopied ==
    /\ op = "convert_docutils"
    /\ ret.kind = "outdoc"
    /\ args[2].name = <<"f","i","t">>
    /\ ~IsNone(args[2].metadata)
    /\ args[2].metadata[1].seealsogroups = <<"s","h",".","f","i","t">>
    /\ ret.attrs.seealsogroups = <<"f","i","t","g","r","o","u","p"," ","c","a","l","c","f","i","t">>

(***************************************************************************)
(* convert: the map from keywords to files and the borrowed records        *)
(***************************************************************************)
\* the record convert reads for a symbol: its file, or that of a synonym
OwnRecord(name) == find_metadata(ahelp_files, name, syn_names_of(tables, name).val)

\* the symbols of to_process whose record names key as a keyword
Candidates(key) ==
    { n \in SeqToSet(to_process) :
        /\ n # key
        /\ OwnRecord(n).exc = ""
        /\ \E w \in SeqToSet(SplitChar(OwnRecord(n).val.refkeywords, " ", << >>)) :
              Lower(w) = key }

\* the place of a name in to_process
PlaceOf(name) == CHOOSE i \in 1..Len(to_process) : to_process[i] = name

Extractors ==
    { "find_syntax", "find_synopsis", "find_desc", "find_fieldlist",
      "find_warning", "find_seealso", "find_notes", "find_references",
      "find_examples" }

\* the extractor fn, called with the arguments a, applied to the list rest
Reapplied(fn, a, rest) ==
    CASE fn = "find_syntax"     -> find_syntax(<<"f","i","t">>, a[2], rest)
      [] fn = "find_synopsis"   -> find_synopsis(rest)
      [] fn = "find_desc"       -> find_desc(rest)
      [] fn = "find_fieldlist"  -> find_fieldlist(rest)
      [] fn = "find_warning"    -> find_warning(rest)
      [] fn = "find_seealso"    -> find_seealso(rest)
      [] fn = "find_notes"      -> find_notes(<<"f","i","t">>, rest)
      [] fn = "find_references" -> find_references(rest)
      [] fn = "find_examples"   -> find_examples(rest)

RubricTitled(n, titles) ==
    n.tagname = "rubric" /\ Strip(NodeAstext(n)) \in titles

\* the extractors that read the first node of the list without a test of
\* its length
ReadsFirstNode == { "find_syntax", "find_synopsis" }

\* the list rest starts with a node the extractor fn looks for (find_syntax
\* also gives a section whenever it has a signature)
StartsItsSection(fn, a, rest) ==
    CASE fn = "find_syntax" ->
           \/ ~IsNone(a[2])
           \/ Len(rest) > 0 /\ is_para(rest[1])
                /\ StartsWith(Strip(NodeAstext(rest[1])), <<"f","i","t","(">>)
      [] fn = "find_desc" -> FALSE
      [] OTHER ->
           /\ Len(rest) > 0
           /\ CASE fn = "find_synopsis"   -> rest[1].tagname = "paragraph"
                [] fn = "find_fieldlist"  -> rest[1].tagname = "field_list"
                [] fn = "find_warning"    -> rest[1].tagname = "warning"
                [] fn = "find_seealso"    -> rest[1].tagname = "seealso"
                [] fn = "find_notes"      -> RubricTitled(rest[1], {<<"N","o","t","e","s">>})
                [] fn = "find_references" -> RubricTitled(rest[1], {<<"R","e","f","e","r","e","n","c","e","s">>})
                [] fn = "find_examples"   ->
                     RubricTitled(rest[1], {<<"E","x","a","m","p","l","e","s">>, <<"E","x","a","m","p","l","e">>})

\* the extractor gave nothing and the list rest unchanged
GaveNothing(r, rest) == r.exc = "" /\ IsNone(r.section) /\ r.rest = rest

\* C21 (as amended): when an extractor gave a section, the same extractor
\* applied to the list it gave back gives nothing and that list unchanged
\* exactly when the list does not start with another node the extractor looks
\* for; this is always so for find_desc only.  After a paragraph, a field
\* list, a warning, a See Also or a rubric run, a second one of the same kind
\* is matched again (or makes the extractor raise), find_syntax with a
\* signature gives a section every time, and find_syntax and find_synopsis
\* raise IndexError when the list they gave back is empty.
C21_ReappliedExtractor ==
    (op \in Extractors /\ ret.exc = "" /\ ~IsNone(ret.section)) =>
        LET again == Reapplied(op, args, ret.rest)
        IN  /\ (op \in ReadsFirstNode /\ ret.rest = << >>) => again.exc = "IndexError"
            /\ ~(op \in ReadsFirstNode /\ ret.rest = << >>) =>
                 (GaveNothing(again, ret.rest) <=> ~StartsItsSection(op, args, ret.rest))
            /\ op = "find_desc" => GaveNothing(again, ret.rest)

\* C21, a state where the case happens: find_fieldlist took the first of two
\* field lists and gave back the second, which it takes when applied again
C21_SecondFieldList ==
    /\ op = "find_fieldlist"
    /\ args[1] = << N_fieldlist, N_fieldlist >>
    /\ ~IsNone(ret.section)
    /\ ret.rest = << N_fieldlist >>
    /\ find_fieldlist(ret.rest) = [ret EXCEPT !.rest = << >>]

\* C21 (as stated): an extractor that gave a section gives nothing when it is
\* applied to the list it gave back
C21_ReappliedAsStated ==
    (op \in Extractors /\ ret.exc = "" /\ ~IsNone(ret.section)) =>
        IsNone(Reapplied(op, args, ret.rest).section)

(***************************************************************************)
(* convert and find_metadata: a symbol without an ahelp file               *)
(***************************************************************************)
\* the names find_metadata looks for, in order: the name of the symbol (the
\* file of group is group_sherpa), then its synonyms
NamesTried(name) ==
    << IF name = <<"g","r","o","u","p">> THEN <<"g","r","o","u","p","_","s","h","e","r","p","a">> ELSE name >>
    \o (IF IsNone(syn_names_of(tables, name).val) THEN << >>
        ELSE syn_names_of(tables, name).val[1])

\* the places in NamesTried of the names that have a file
FilesFound(name) ==
    { i \in 1..Len(NamesTried(name)) : NamesTried(name)[i] \in DOMAIN ahelp_files }

\* the first file found
FirstFile(name) == ahelp_files[NamesTried(name)[Nth(FilesFound(name), 1)]]

\* nothing to read and nothing to borrow
NoRecord(name) == FilesFound(name) = {} /\ Cardinality(Candidates(name)) # 1

ParameterThenIvar(fields) ==
    /\ Len(fields) = 2
    /\ FieldKind(fields[1]) \in {"param", "type", "ivar"}
    /\ FieldKind(fields[2]) = "ivar"

\* the first field made a record whose name ends in a comma and whose ivar
\* body is empty
OpenIvar(field) ==
    /\ FieldKind(field) = "ivar"
    /\ EndsWith(Strip(FieldPname(field)), <<",">>)
    /\ Len(field_body_of(field)[1].children) = 0

\* what the two fields give as the claim has it: one merged record after an
\* open attribute, and otherwise the records of the names
TwoFieldsAsStated(fields, r) ==
    /\ r.exc = ""
    /\ IF OpenIvar(fields[1])
       THEN r.section[1].params =
              << [name  |-> FieldPname(fields[1]) \o <<" ">> \o FieldPname(fields[2]),
                  param |-> None, type |-> None,
                  ivar  |-> field_body_of(fields[2])] >>
       ELSE RecordPerName(fields, r.section[1].params)

\* C23 (as stated): an attribute field after an open attribute is merged
\* with it into one record; in every other case the attribute field makes or
\* updates the record of its own name and the field list is processed
\* without error
C23_MergeAsStated ==
    (op = "find_fieldlist" /\ Len(args[1]) > 0 /\ args[1][1].tagname = "field_list"
       /\ ParameterThenIvar(args[1][1].children)) =>
      TwoFieldsAsStated(args[1][1].children, ret)

(***************************************************************************)
(* convert_table                                                           *)
(***************************************************************************)
\* a cell is empty or holds one paragraph
GoodCell(entry) ==
    /\ entry.tagname = "entry"
    /\ \/ Len(entry.children) = 0
       \/ Len(entry.children) = 1 /\ entry.children[1].tagname = "paragraph"

\* the table has one child, a table group of column specifications, header
\* groups and body groups whose rows are rows of good cells
GoodTable(tbl) ==
    /\ tbl.tagname = "table"
    /\ Len(tbl.children) = 1
    /\ tbl.children[1].tagname = "tgroup"
    /\ \A i \in 1..Len(tbl.children[1].children) :
         LET el == tbl.children[1].children[i]
         IN  /\ el.tagname \in {"colspec", "thead", "tbody"}
             /\ el.tagname # "colspec" =>
                  \A j \in 1..Len(el.children) :
                     /\ el.children[j].tagname = "row"
                     /\ \A c \in 1..Len(el.children[j].children) :
                          GoodCell(el.children[j].children[c])

\* the rows of the header and body groups of a table group, in order
SourceRows(tgroup) ==
    Flatten([ i \in 1..Len(tgroup.children) |->
                IF tgroup.children[i].tagname = "colspec" THEN << >>
                ELSE tgroup.children[i].children ])

\* the DATA element of a good cell
DataOf(entry) ==
    El("DATA", NoAttrs,
       Some(IF Len(entry.children) = 0 THEN << >> ELSE NodeAstext(entry.children[1])),
       << >>)

\* C24: convert_table gives, for a table whose one child is a table group of
\* rows of cells that are empty or hold one paragraph, one TABLE with one ROW
\* for each row of the header group and then of the body group, in order,
\* each ROW with one DATA for each cell in cell order, the text of the DATA of
\* an empty cell being the empty string; it raises for every other table,
\* one with no or several children or a child that is no table group included.
C24_TableRows ==
    op = "convert_table" =>
        LET tbl == args[1]
        IN  IF ~GoodTable(tbl) THEN ret.exc # ""
            ELSE LET rows == SourceRows(tbl.children[1])
                 IN  /\ ret.exc = ""
                     /\ ret.val.tag = "TABLE"
                     /\ Len(ret.val.kids) = Len(rows)
                     /\ \A i \in 1..Len(rows) :
                          /\ ret.val.kids[i].tag = "ROW"
                          /\ ret.val.kids[i].kids =
                               [ c \in 1..Len(rows[i].children) |->
                                   DataOf(rows[i].children[c]) ]

\* C24, a state where the case happens: the table has the header row Name,
\* Description and one body row whose second cell is empty; the second DATA
\* of the second ROW is there and its text is the empty string
C24_EmptySecondCell ==
    /\ op = "convert_table"
    /\ args[1] = TableOf(<< Colspec, Colspec, Elem("thead", << HeaderRow >>),
                            Elem("tbody", << Elem("row", << Entry(<< Para(<<"x">>) >>),
                                                            Entry(<< >>) >>) >>) >>)
    /\ ret.exc = ""
    /\ Len(ret.val.kids) = 2
    /\ ret.val.kids[1].kids[2].text = Some(<<"D","e","s","c","r","i","p","t","i","o","n">>)
    /\ Len(ret.val.kids[2].kids) = 2
    /\ ret.val.kids[2].kids[2] = El("DATA", NoAttrs, Some(<< >>), << >>)

(***************************************************************************)
(* splitWhile                                                              *)
(***************************************************************************)
\* C26: splitWhile(pred, xs) returns (ls, rs) where ls followed by rs is xs,
\* every element of ls satisfies pred and rs is empty or starts with an
\* element that fails pred, so that the elements after the first failing one
\* are in rs whether they satisfy pred or not; xs is as it was; the operator
\* the extractors use gives the same two lists.
C26_SplitWhile ==
    op = "splitWhile" =>
        LET pred == args[1]
            xs == args[2]
            ls == ret.val[1]
            rs == ret.val[2]
        IN  /\ ret.exc = ""
            /\ ls \o rs = xs
            /\ \A i \in 1..Len(ls) : pred[ls[i]]
            /\ rs = << >> \/ ~pred[rs[1]]
            /\ ret.xs = xs
            /\ splitWhile(pred, xs) = ret.val

\* C26, a state where the case happens: an element that satisfies pred
\* comes after the first one that fails, and stays in rs
C26_LaterElementStays ==
    /\ op = "splitWhile"
    /\ args[2] = << 1, 2, 5, 1 >>
    /\ \A x \in SplitElems : args[1][x] = (x < 5)
    /\ ret.val = << << 1, 2 >>, << 5, 1 >> >>
    /\ ret.xs = args[2]

(***************************************************************************)
(* The working node list                                                   *)
(***************************************************************************)
\* C25: the list an extractor gives back is a suffix of the list it was
\* given; in convert_docutils the first extractor is given the top-level
\* nodes of the document, each later one the list the one before gave back
\* (the list as it was when a call raised), and every list given or given
\* back is a suffix of the top-level nodes of the document.
C25_WorkingListIsSuffix ==
    /\ (op \in Extractors /\ ret.exc = "") => IsSuffix(ret.rest, args[1])
    /\ op = "convert_docutils" =>
         \A i \in 1..Len(ret.calls) :
            /\ ret.calls[i].before = (IF i = 1 THEN args[1] ELSE ret.calls[i - 1].after)
            /\ IsSuffix(ret.calls[i].after, ret.calls[i].before)
            /\ IsSuffix(ret.calls[i].before, args[1])
            /\ IsSuffix(ret.calls[i].after, args[1])

\* C25, a state where the case happens: convert_docutils has called every
\* extractor on a document of three nodes, the list shrinking to a proper
\* suffix of two nodes, of one node and to the empty list
C25_ShrinksToEmpty ==
    /\ op = "convert_docutils"
    /\ Len(args[1]) = 3
    /\ ret.exc = ""
    /\ \A n \in 0..2 : \E i \in 1..Len(ret.calls) : Len(ret.calls[i].after) = n
    /\ \E i \in 1..Len(ret.calls) : ret.calls[i].step = "find_references_again"

(***************************************************************************)
(* Several synonyms                                                        *)
(***************************************************************************)
\* the conversion of the same document in the same context but for the
\* synonyms
WithSynonyms(doc, c, synonyms) ==
    convert_docutils(c.name, doc, c.sig, c.symbol, c.metadata, synonyms, c.dtd)

\* convert_docutils was given two or more synonyms and find_syntax gave a
\* syntax block
SeveralSynonyms ==
    /\ op = "convert_docutils"
    /\ ~IsNone(args[2].synonyms)
    /\ Len(args[2].synonyms[1]) >= 2
    /\ Len(ret.calls) >= 1
    /\ ret.calls[1].found

\* C27 as the specification states it: with two or more synonyms and a
\* syntax block, a conversion that gives an output document for the first
\* synonym alone gives one for all of them, every synonym among its
\* refkeywords
C27_SeveralSynonymsAsStated ==
    (/\ SeveralSynonyms
     /\ WithSynonyms(args[1], args[2], Some(<< args[2].synonyms[1][1] >>)).kind = "outdoc")
    => /\ ret.kind = "outdoc"
       /\ SeqToSet(args[2].synonyms[1]) \subseteq SeqToSet(Split(ret.attrs.refkeywords))

(***************************************************************************)
(* Warning nodes                                                           *)
(***************************************************************************)
RunExtractors == { "find_desc", "find_notes", "find_examples" }

\* the extractor fn takes a run of the list indoc
TakesRun(fn, indoc) ==
    /\ Len(indoc) > 0
    /\ CASE fn = "find_desc"     -> want(indoc[1])
         [] fn = "find_notes"    -> RubricTitled(indoc[1], { <<"N","o","t","e","s">> })
         [] fn = "find_examples" -> RubricTitled(indoc[1], { <<"E","x","a","m","p","l","e","s">>, <<"E","x","a","m","p","l","e">> })

\* the run of nodes the extractor fn takes from the list indoc
RunOf(fn, indoc) ==
    IF fn = "find_desc"
    THEN splitWhile([x \in SeqToSet(indoc) |-> want(x)], indoc)[1]
    ELSE splitWhile(not_rubric_of(Tail(indoc)), Tail(indoc))[1]

HasWarning(run) == \E i \in 1..Len(run) : run[i].tagname = "warning"

\* the element find_warning makes of a warning node with one child
WarningOf(node) ==
    El("ADESC", Title(<<"W","a","r","n","i","n","g">>), None,
       << El("PARA", NoAttrs, Some(astext(node.children[1]).val), << >>) >>)

\* C28 (as amended): find_warning, given a list that starts with a warning
\* node, raises when the node does not have exactly one child or the text of
\* the child cannot be flattened, and otherwise gives one ADESC titled
\* 'Warning' whose one PARA holds the flattened text of the child, and the
\* rest of the list.  Block conversion has no rule for a warning node: a
\* description, notes or examples run that holds a warning node makes the
\* extractor raise, and so does make_para_blocks for a warning node.
C28_WarningNode ==
    /\ (op = "find_warning" /\ Len(args[1]) > 0 /\ args[1][1].tagname = "warning") =>
         LET node == args[1][1]
         IN  IF Len(node.children) # 1 THEN ret.exc = "AssertionError"
             ELSE IF astext(node.children[1]).exc # ""
             THEN ret.exc = astext(node.children[1]).exc
             ELSE ret = Found(WarningOf(node), Tail(args[1]))
    /\ (op \in RunExtractors /\ TakesRun(op, args[1]) /\ HasWarning(RunOf(op, args[1]))) =>
         ret.exc # ""
    /\ (op = "convert_docutils" /\ args[1] = << N_text, N_text, N_warning >>) =>
         /\ ret.exc = "ValueError"
         /\ ret.calls[Len(ret.calls)].fn = "find_desc"
    /\ make_para_blocks(N_warning).exc = "ValueError"

\* C28, a state where the case happens: a warning node with one child is
\* the second node of a description run, and find_desc raises ValueError
C28_WarningInDescription ==
    /\ op = "find_desc"
    /\ args[1] = << N_text, N_warning >>
    /\ ret.exc = "ValueError"

\* C28 as the specification states it: a warning node with one child met in
\* a description, notes or examples run is converted to an element titled
\* 'Warning' that holds the flattened text of the child
C28_WarningAsStated ==
    (/\ op \in RunExtractors
     /\ TakesRun(op, args[1])
     /\ RunOf(op, args[1]) = << N_warning >>)
    => /\ ret.exc = ""
       /\ ~IsNone(ret.section)
       /\ \E i \in 1..Len(ret.section[1].kids) :
             ret.section[1].kids[i] = WarningOf(N_warning)

(***************************************************************************)
(* The parameter section                                                   *)
(***************************************************************************)
\* the record has a type body only
TypeOnly(par) == IsNone(par.param) /\ IsNone(par.ivar)

\* C29 as the specification states it: the parameter section holds, after
\* its first PARA, one PARA titled with the name of each parameter record, in
\* the order of the records, whether the record has a param or ivar body or
\* a type body only
C29_OneParaPerRecordAsStated ==
    (/\ op = "extract_params"
     /\ ~IsNone(args[1])
     /\ ret.exc = ""
     /\ ~IsNone(ret.val)
     /\ Len(args[1][1].returns) = 0)
    => LET params == args[1][1].params
           kids   == ret.val[1].kids
       IN  /\ Len(kids) = 1 + Len(params)
           /\ TitlesOf(ret.val[1]) = [ i \in 1..Len(params) |-> params[i].name ]

(***************************************************************************)
(* The empty list                                                          *)
(***************************************************************************)
\* C30 as the specification states it: an extractor given the empty list
\* gives the empty list back and does not raise, and convert_docutils, given
\* a document with no node or with a syntax paragraph only, does not raise
\* inside an extractor
C30_EmptyListAsStated ==
    /\ (op \in Extractors /\ args[1] = << >>) => (ret.exc = "" /\ ret.rest = << >>)
    /\ (op = "convert_docutils" /\ args[1] \in { << >>, << N_syntax >> }) =>
         \A i \in 1..Len(ret.calls) : ret.calls[i].exc = ""
====
